---- MODULE Spec2Model ----
(***************************************************************************)
(* Dynamic playback-rate engine of spicetify-raccoon-wheel.                *)
(*                                                                         *)
(* src/src/logic.ts holds two variants of calculateDynamicPlaybackRate:    *)
(* the "Trap Nation" (full) strategy, lines 178-363, and the simple        *)
(* "confidence + loudness" strategy, lines 484-623.  src/src/app.tsx       *)
(* holds a third, beats-only variant, lines 70-149, called by the driver.  *)
(*                                                                         *)
(* Numbers.  The code computes with IEEE doubles, which round after every  *)
(* operation.  The model computes with decimal fixed point: a real x is    *)
(* the integer floor(x * Scale), and every multiplication and division     *)
(* rounds (toward minus infinity) to that grid.  Every literal of the code *)
(* (0.15, 0.35, 1.25, 0.12, ...) is exact on the grid.  Times are seconds  *)
(* on the same grid, so one grid unit is one millisecond.                  *)
(*                                                                         *)
(* Optional values (a?: T, T | null, T | undefined) are sequences of       *)
(* length at most one: None is absent, Some(x) is present.                 *)
(***************************************************************************)
EXTENDS Integers, Sequences, FiniteSets, TLC

VARIABLES
    audioData,        \* the analysis snapshot handed to the engine
    currentProgress,  \* the playback position in milliseconds
    bpmArg,           \* the target clip BPM, None when left out
    call              \* the last call made and what it returned

\* calculateBetterBPM (app.tsx 467-512): its arguments with the setting it
\* reads, and what it returned
VARIABLES
    bpmInput,
    bpmResult

\* fetchAudioData (app.tsx 189-207): where the outermost call stands
VARIABLES
    fetchPc,          \* "idle", "awaitGetAudioData", "awaitRetryDelay", "returned"
    fetchArg,         \* maxRetries of the outermost call
    fetchMaxRetries,  \* maxRetries of the innermost call
    fetchCalls,       \* calls of Spicetify.getAudioData so far
    fetchFailure,     \* how the last call of Spicetify.getAudioData failed
    fetchReturn       \* what the outermost call returned

\* The driver of app.tsx: the player, the module variables of lines 60-61,
\* the document, and the asynchronous executions in flight
VARIABLES
    isPlaying,            \* Spicetify.Player.isPlaying()
    playerSong,           \* the number of the song the player is on
    lastProgress,         \* main's lastProgress (line 542)
    globalAudioData,      \* None, or Some(s): the analysis of song s
    isCreatingVideo,      \* line 61
    elements,             \* every element createWebMVideo created, by number
    document,             \* the elements with id "raccoonwheel-webm" in the document
    createCalls,          \* calls of createWebMVideo so far
    creations,            \* the executions of createWebMVideo inside its try block
    songChanges,          \* the executions of the songchange handler at an await
    activeIntervals,      \* the interval timers that are registered
    speedUpdateInterval,  \* main's speedUpdateInterval (line 543)
    resyncTimers          \* the elements a pending setTimeout will play

\* The BPM-only driver of part_000, with its video element in the document
VARIABLES
    legacyIsPlaying,        \* Spicetify.Player.isPlaying()
    legacySong,             \* the number of the song the player is on
    legacyLastProgress,     \* main's lastProgress (part_000 382)
    legacyGlobalAudioData,  \* None, or Some(s): the analysis of song s
    legacyElement,          \* "video" or "img": the element with the id
    legacyPaused,           \* mediaElement.paused
    legacyPlaybackRate,     \* mediaElement.playbackRate
    legacyTimers,           \* pending setTimeout callbacks that play the element
    legacySongChanges,      \* the executions of the songchange handler at an await
    legacyPauseHandled      \* the onplaypause handler ran for a pause still in force

engineVars == <<audioData, currentProgress, bpmArg, call>>

legacyVars ==
    <<legacyIsPlaying, legacySong, legacyLastProgress, legacyGlobalAudioData,
      legacyElement, legacyPaused, legacyPlaybackRate, legacyTimers, legacySongChanges,
      legacyPauseHandled>>

appVars ==
    <<isPlaying, playerSong, lastProgress, globalAudioData, isCreatingVideo, elements,
      document, createCalls, creations, songChanges, activeIntervals,
      speedUpdateInterval, resyncTimers>>

betterBPMVars == <<bpmInput, bpmResult>>

fetchVars ==
    <<fetchPc, fetchArg, fetchMaxRetries, fetchCalls, fetchFailure, fetchReturn>>

\* The state outside the rate engine
driverVars == <<betterBPMVars, fetchVars, appVars, legacyVars>>

vars == <<engineVars, driverVars>>

\* No call of calculateBetterBPM is being looked at
BetterBPMIdle == bpmInput = <<>> /\ bpmResult = <<>>

\* No call of fetchAudioData is being looked at
FetchIdle ==
    /\ fetchPc = "idle"
    /\ fetchArg = 0
    /\ fetchMaxRetries = 0
    /\ fetchCalls = 0
    /\ fetchFailure = "none"
    /\ fetchReturn = "pending"

\* The driver of app.tsx is not running
AppIdle ==
    /\ isPlaying = FALSE
    /\ playerSong = 1
    /\ lastProgress = 0
    /\ globalAudioData = <<>>
    /\ isCreatingVideo = FALSE
    /\ elements = <<>>
    /\ document = <<>>
    /\ createCalls = 0
    /\ creations = <<>>
    /\ songChanges = <<>>
    /\ activeIntervals = {}
    /\ speedUpdateInterval = <<>>
    /\ resyncTimers = {}

\* The driver of part_000 is not running
LegacyIdle ==
    /\ legacyIsPlaying = FALSE
    /\ legacySong = 1
    /\ legacyLastProgress = 0
    /\ legacyGlobalAudioData = <<>>
    /\ legacyElement = "video"
    /\ legacyPaused = TRUE
    /\ legacyPlaybackRate = 0
    /\ legacyTimers = 0
    /\ legacySongChanges = <<>>
    /\ legacyPauseHandled = FALSE

\* The rate engine is looked at alone
DriverIdle == BetterBPMIdle /\ FetchIdle /\ AppIdle /\ LegacyIdle

\* ---------------------------------------------------------------------------
\* Fixed-point arithmetic
\* ---------------------------------------------------------------------------

Scale == 10 * 100

None == <<>>

Some(x) == <<x>>

Min(a, b) == IF a < b THEN a ELSE b

Abs(a) == IF a < 0 THEN 0 - a ELSE a

\* seq without its k-th element
Remove(seq, k) == [n \in 1..(Len(seq) - 1) |-> IF n < k THEN seq[n] ELSE seq[n + 1]]

Max(a, b) == IF a > b THEN a ELSE b

\* a * b
Mul(a, b) == (a * b) \div Scale

\* a / b.  JavaScript yields +-Infinity for x / 0 (and NaN for 0 / 0); the
\* saturated value below stands for an infinite quotient.
Huge == Scale * Scale

DivFx(a, b) ==
    IF b > 0 THEN (a * Scale) \div b
    ELSE IF b < 0 THEN ((0 - a) * Scale) \div (0 - b)
    ELSE IF a > 0 THEN Huge
    ELSE IF a < 0 THEN 0 - Huge
    ELSE 0

\* ---------------------------------------------------------------------------
\* logic.ts, full strategy: helpers (lines 69-172)
\* ---------------------------------------------------------------------------

\* 1 - Math.pow(1 - t, 3)
easeOutCubic(t) ==
    LET u == Scale - t
    IN  Scale - Mul(Mul(u, u), u)

\* t * t
easeInQuad(t) == Mul(t, t)

\* Math.sin(t * Math.PI).  The sine is irrational at almost every rational
\* point, so it is computed by Bhaskara's rational form
\* 16 t (1 - t) / (5 - 4 t (1 - t)), which is exact at every t in [0, 1]
\* where the sine is rational (0, 1/6, 1/2, 5/6, 1) and within 0.002 of it
\* elsewhere in [0, 1].
sinePulse(t) ==
    LET q == Mul(t, Scale - t)
    IN  DivFx(16 * q, 5 * Scale - 4 * q)

\* normalizeLoudness(loudnessDb) with its default range minDb = -60, maxDb = 0
normalizeLoudness(loudnessDb) ==
    LET minDb == (0 - 60) * Scale
        maxDb == 0
        normalized == DivFx(loudnessDb - minDb, maxDb - minDb)
    IN  Max(0, Min(Scale, normalized))

\* getBassEnergy without its !segment.timbre test: reading .length of an
\* undefined timbre raises a TypeError.
getBassEnergyNoGuard(segment) ==
    IF segment.timbre = None THEN [threw |-> TRUE, value |-> 0]
    ELSE IF Len(segment.timbre[1]) = 0 THEN [threw |-> FALSE, value |-> Scale \div 2]
    ELSE LET timbre == segment.timbre[1]
             brightness == IF Len(timbre) >= 2 THEN timbre[2] ELSE 0
         IN  [threw |-> FALSE,
              value |-> Max(0, Min(Scale, DivFx((0 - brightness) + 100 * Scale, 200 * Scale)))]

\* getBassEnergy(segment): [threw, value]; threw is a TypeError raised by a
\* property read on an undefined timbre.
getBassEnergy(segment) ==
    IF segment.timbre = None \/ Len(segment.timbre[1]) = 0
    THEN [threw |-> FALSE, value |-> Scale \div 2]
    ELSE LET timbre == segment.timbre[1]
             \* segment.timbre[1] || 0 : index 1 is the second coefficient
             brightness == IF Len(timbre) >= 2 THEN timbre[2] ELSE 0
             bassiness == Max(0, Min(Scale, DivFx((0 - brightness) + 100 * Scale, 200 * Scale)))
         IN  [threw |-> FALSE, value |-> bassiness]

\* detectBuildUp without the test of the 8-second window.
detectBuildUpNoWindow(progressInSeconds, sections, currentSectionIndex) ==
    IF currentSectionIndex < 0 \/ currentSectionIndex >= Len(sections) - 1
    THEN [isBuildUp |-> FALSE, buildUpProgress |-> 0]
    ELSE LET currentSection == sections[currentSectionIndex + 1]
             nextSection == sections[currentSectionIndex + 2]
             loudnessDiff == nextSection.loudness - currentSection.loudness
             timeUntilNextSection ==
                 (currentSection.start + currentSection.duration) - progressInSeconds
             buildUpProgress == Scale - DivFx(timeUntilNextSection, 8 * Scale)
         IN  IF loudnessDiff > (3 * Scale) \div 2
             THEN [isBuildUp |-> TRUE,
                   buildUpProgress |-> Max(0, Min(Scale, buildUpProgress))]
             ELSE [isBuildUp |-> FALSE, buildUpProgress |-> 0]

\* detectBuildUp(progressInSeconds, sections, currentSectionIndex), with the
\* code's 0-based index.
detectBuildUp(progressInSeconds, sections, currentSectionIndex) ==
    IF currentSectionIndex < 0 \/ currentSectionIndex >= Len(sections) - 1
    THEN [isBuildUp |-> FALSE, buildUpProgress |-> 0]
    ELSE LET currentSection == sections[currentSectionIndex + 1]
             nextSection == sections[currentSectionIndex + 2]
             loudnessDiff == nextSection.loudness - currentSection.loudness
             isBuildUp == loudnessDiff > (3 * Scale) \div 2
             buildUpWindow == 8 * Scale
             timeUntilNextSection ==
                 (currentSection.start + currentSection.duration) - progressInSeconds
             buildUpProgress == Scale - DivFx(timeUntilNextSection, buildUpWindow)
         IN  IF ~isBuildUp THEN [isBuildUp |-> FALSE, buildUpProgress |-> 0]
             ELSE IF timeUntilNextSection > buildUpWindow
             THEN [isBuildUp |-> FALSE, buildUpProgress |-> 0]
             ELSE [isBuildUp |-> TRUE,
                   buildUpProgress |-> Max(0, Min(Scale, buildUpProgress))]

\* The interval test with a closed end.
inIntervalClosed(progressInSeconds, x) ==
    /\ progressInSeconds >= x.start
    /\ progressInSeconds <= x.start + x.duration

\* The interval test shared by the section and segment searches:
\* progressInSeconds >= x.start && progressInSeconds < x.start + x.duration
inInterval(progressInSeconds, x) ==
    /\ progressInSeconds >= x.start
    /\ progressInSeconds < x.start + x.duration

\* The search falling back to the first element when none matches.
RECURSIVE firstMatchOrFirst(_, _, _)
firstMatchOrFirst(progressInSeconds, xs, i) ==
    IF i > Len(xs) THEN (IF Len(xs) > 0 THEN 1 ELSE 0)
    ELSE IF inInterval(progressInSeconds, xs[i]) THEN i
    ELSE firstMatchOrFirst(progressInSeconds, xs, i + 1)

\* The 1-based position of the first element of xs whose interval holds
\* progressInSeconds, 0 when there is none (Array.prototype.find and the
\* loop of findSectionWithIndex both return the first match).
RECURSIVE firstMatch(_, _, _)
firstMatch(progressInSeconds, xs, i) ==
    IF i > Len(xs) THEN 0
    ELSE IF inInterval(progressInSeconds, xs[i]) THEN i
    ELSE firstMatch(progressInSeconds, xs, i + 1)

\* findSectionWithIndex: the code's 0-based index, -1 when no section matches
findSectionWithIndex(progressInSeconds, sections) ==
    firstMatch(progressInSeconds, sections, 1) - 1

\* getSectionEnergy without its clamp.
getSectionEnergyUnclamped(section, trackLoudness) ==
    ((section.loudness - trackLoudness) + 5 * Scale) \div 8

\* getSectionEnergy(section, trackLoudness)
getSectionEnergy(section, trackLoudness) ==
    LET loudnessDiff == section.loudness - trackLoudness
        energy == (loudnessDiff + 5 * Scale) \div 8
    IN  Max(0, Min(Scale, energy))

\* ---------------------------------------------------------------------------
\* The beat search shared by the three variants
\* ---------------------------------------------------------------------------

\* The loop comparing with < instead of <=.
RECURSIVE beatLoopStrict(_, _, _, _)
beatLoopStrict(beats, progressInSeconds, i, cur) ==
    IF i > Len(beats) THEN cur
    ELSE IF beats[i].start < progressInSeconds
         THEN beatLoopStrict(beats, progressInSeconds, i + 1, i - 1)
         ELSE cur

\* for (i = 0; i < beats.length; i++)
\*     if (beats[i].start <= progressInSeconds) currentBeatIndex = i; else break;
\* i is the 1-based position examined next, cur the code's 0-based index so far.
RECURSIVE beatLoop(_, _, _, _)
beatLoop(beats, progressInSeconds, i, cur) ==
    IF i > Len(beats) THEN cur
    ELSE IF beats[i].start <= progressInSeconds
         THEN beatLoop(beats, progressInSeconds, i + 1, i - 1)
         ELSE cur

\* The loop started from index 0 instead of -1.
findCurrentBeatIndexFromZero(beats, progressInSeconds) ==
    beatLoop(beats, progressInSeconds, 1, 0)

findCurrentBeatIndex(beats, progressInSeconds) ==
    beatLoop(beats, progressInSeconds, 1, 0 - 1)

\* The guard without its length test.
noBeatsNullOnly(ad) ==
    \/ ad = None
    \/ ad[1].beats = None

\* !audioData?.beats || audioData.beats.length === 0
noBeats(ad) ==
    \/ ad = None
    \/ ad[1].beats = None
    \/ Len(ad[1].beats[1]) = 0

\* The locals of a call at its return, for the paths that do not reach them.
NoLocals ==
    [threw |-> FALSE, currentBeatIndex |-> 0 - 1, beatDuration |-> 0,
     positionInBeat |-> 0, confidence |-> 0, sectionEnergy |-> 0,
     buildUpMultiplier |-> 0, sectionIndex |-> 0 - 1, segmentIndex |-> 0 - 1,
     segmentBoost |-> 0, loudnessMultiplier |-> 0, clampedTempoRatio |-> 0,
     tempoIntensity |-> 0, sectionMultiplier |-> 0, isBuildUp |-> FALSE,
     buildUpProgress |-> 0, pulseIntensity |-> 0, beatPulse |-> 0,
     combinedEnergy |-> 0, sectionDelta |-> 0, segmentDelta |-> 0,
     beatPhaseMultiplier |-> 0]

DEFAULT_VIDEO_BPM == 130 * Scale

\* videoDefaultBPM: number = DEFAULT_VIDEO_BPM (logic.ts 181, 487), and
\* if (!videoDefaultBPM) videoDefaultBPM = DEFAULT_VIDEO_BPM (app.tsx 106-109)
defaultBPM(bpm) == IF bpm = None THEN DEFAULT_VIDEO_BPM ELSE bpm[1]

\* currentProgress / 1000 : milliseconds to seconds
toSeconds(progressMs) == (progressMs * Scale) \div 1000

\* ---------------------------------------------------------------------------
\* logic.ts lines 178-363: calculateDynamicPlaybackRate, full strategy
\* ---------------------------------------------------------------------------

\* The post-beat return with the simple strategy's gain.
postBeatRateSimpleGain(currentBeat) == 500 + Mul(currentBeat.confidence, 1500)

\* Line 213: return 0.5 + currentBeat.confidence * 0.3
postBeatRate(currentBeat) == 500 + Mul(currentBeat.confidence, 300)

\* The final clamp without its lower bound.
finalClampUpperOnly(playbackRate) == Min(2500, playbackRate)

\* Line 360: Math.max(0.4, Math.min(2.5, playbackRate))
finalClamp(playbackRate) == Max(400, Min(2500, playbackRate))

\* Line 229: Math.max(0.6, Math.min(1.4, tempoRatio))
clampTempoRatio(tempoRatio) == Max(600, Min(1400, tempoRatio))

\* The intensity clamped below at 0 instead of 0.3.
tempoIntensityOfFloorZero(trackTempo) ==
    Max(0, Min(1000, DivFx(trackTempo - 70 * Scale, 60 * Scale)))

\* Line 238: Math.max(0.3, Math.min(1.0, (trackTempo - 70) / 60))
tempoIntensityOf(trackTempo) ==
    Max(300, Min(1000, DivFx(trackTempo - 70 * Scale, 60 * Scale)))

\* The ramp running the wrong way: 1 - buildUpProgress in place of buildUpProgress.
buildUpMultiplierOfFalling(buildUp, tempoIntensity) ==
    IF buildUp.isBuildUp
    THEN 1000 + Mul(Mul(Scale - buildUp.buildUpProgress, 400), tempoIntensity)
    ELSE 1000

\* Lines 244, 262-266: buildUpMultiplier = 1.0, and when isBuildUp
\* buildUpMultiplier = 1.0 + buildUpProgress * 0.4 * tempoIntensity
buildUpMultiplierOf(buildUp, tempoIntensity) ==
    IF buildUp.isBuildUp
    THEN 1000 + Mul(Mul(buildUp.buildUpProgress, 400), tempoIntensity)
    ELSE 1000

\* The section energy used as the multiplier, without the tempo-scaled range.
sectionMultiplierOfEnergyOnly(sectionEnergy, tempoIntensity) == sectionEnergy

\* Lines 274-276: sectionRangeMin + sectionEnergy * sectionRangeMax
sectionMultiplierOf(sectionEnergy, tempoIntensity) ==
    LET sectionRangeMin == 500 + Mul(1000 - tempoIntensity, 200)
        sectionRangeMax == Mul(1000, tempoIntensity)
    IN  sectionRangeMin + Mul(sectionEnergy, sectionRangeMax)

\* Lines 293-294: pulseIntensity
pulseIntensityOf(sectionEnergy, tempoIntensity) ==
    LET basePulseIntensity == 300 + Mul(sectionEnergy, 700)
    IN  Mul(basePulseIntensity, 400 + Mul(tempoIntensity, 600))

\* Lines 300, 305: (0.3 + beatConfidence * 0.5) * pulseIntensity, which the
\* code names attackStrength in the attack and peakValue in the decay
attackStrength(beatConfidence, pulseIntensity) ==
    Mul(300 + Mul(beatConfidence, 500), pulseIntensity)

\* Lines 296-301, the attack branch
attackPulse(positionInBeat, beatConfidence, pulseIntensity) ==
    LET attackProgress == DivFx(positionInBeat, 150)
    IN  1000 + Mul(attackStrength(beatConfidence, pulseIntensity),
                   easeOutCubic(attackProgress))

\* The decay spread over half a beat instead of 0.35 of it.
decayPulseHalfBeat(positionInBeat, beatConfidence, pulseIntensity) ==
    LET decayProgress == DivFx(positionInBeat - 150, 500)
    IN  1000 + Mul(attackStrength(beatConfidence, pulseIntensity),
                   1000 - easeInQuad(decayProgress))

\* Lines 302-307, the decay branch
decayPulse(positionInBeat, beatConfidence, pulseIntensity) ==
    LET decayProgress == DivFx(positionInBeat - 150, 350)
        peakValue == attackStrength(beatConfidence, pulseIntensity)
    IN  1000 + Mul(peakValue, 1000 - easeInQuad(decayProgress))

\* Lines 308-313, the rest branch
restPulse(positionInBeat, beatConfidence, pulseIntensity) ==
    LET restProgress == DivFx(positionInBeat - 500, 500)
        breathAmount == Mul(Mul(100, beatConfidence), pulseIntensity)
    IN  1000 + Mul(breathAmount, sinePulse(restProgress))

\* Lines 296-314: the three-branch envelope
beatPulseOf(positionInBeat, beatConfidence, pulseIntensity) ==
    IF positionInBeat < 150
    THEN attackPulse(positionInBeat, beatConfidence, pulseIntensity)
    ELSE IF positionInBeat < 500
    THEN decayPulse(positionInBeat, beatConfidence, pulseIntensity)
    ELSE restPulse(positionInBeat, beatConfidence, pulseIntensity)

\* The two components added without their weights.
combinedEnergyOfUnweighted(segmentLoudness, bassEnergy) == segmentLoudness + bassEnergy

\* Line 337: segmentLoudness * 0.6 + bassEnergy * 0.4
combinedEnergyOf(segmentLoudness, bassEnergy) ==
    Mul(segmentLoudness, 600) + Mul(bassEnergy, 400)

\* Lines 342-343: segmentBoost = 1.0 + combinedEnergy * maxBoost
segmentBoostOf(combinedEnergy, sectionEnergy, tempoIntensity) ==
    LET maxBoost == Mul(150 + Mul(sectionEnergy, 250), tempoIntensity)
    IN  1000 + Mul(combinedEnergy, maxBoost)

\* The product without the segment boost.
combineFactorsNoBoost(baseRate, beatPulse, segmentBoost) == Mul(baseRate, beatPulse)

\* Line 350: baseRate * beatPulse * segmentBoost
combineFactors(baseRate, beatPulse, segmentBoost) ==
    Mul(Mul(baseRate, beatPulse), segmentBoost)

\* Steps 2-8 (lines 216-362), reached with a current and a next beat.
fullInterpolation(progressInSeconds, a, videoDefaultBPM, currentBeatIndex) ==
    LET trackLoudness == IF a.track = None THEN (0 - 10) * Scale ELSE a.track[1].loudness
        trackTempo == IF a.track = None THEN 120 * Scale ELSE a.track[1].tempo
        currentBeat == a.beats[1][currentBeatIndex + 1]
        nextBeat == a.beats[1][currentBeatIndex + 2]
        \* STEP 2
        beatDuration == nextBeat.start - currentBeat.start
        positionInBeat == DivFx(progressInSeconds - currentBeat.start, beatDuration)
        instantBPM == DivFx(60 * Scale, beatDuration)
        \* STEP 3
        tempoRatio == DivFx(instantBPM, videoDefaultBPM)
        clampedTempoRatio == clampTempoRatio(tempoRatio)
        tempoIntensity == tempoIntensityOf(trackTempo)
        \* STEP 4
        hasSections == a.sections # None /\ Len(a.sections[1]) > 0
        sectionIndex ==
            IF hasSections THEN findSectionWithIndex(progressInSeconds, a.sections[1])
            ELSE 0 - 1
        sectionEnergy ==
            IF sectionIndex >= 0
            THEN getSectionEnergy(a.sections[1][sectionIndex + 1], trackLoudness)
            ELSE 500
        buildUp ==
            IF sectionIndex >= 0
            THEN detectBuildUp(progressInSeconds, a.sections[1], sectionIndex)
            ELSE [isBuildUp |-> FALSE, buildUpProgress |-> 0]
        buildUpMultiplier == buildUpMultiplierOf(buildUp, tempoIntensity)
        sectionMultiplier == sectionMultiplierOf(sectionEnergy, tempoIntensity)
        baseRate == Mul(Mul(clampedTempoRatio, sectionMultiplier), buildUpMultiplier)
        \* STEP 5
        beatConfidence == currentBeat.confidence
        pulseIntensity == pulseIntensityOf(sectionEnergy, tempoIntensity)
        beatPulse == beatPulseOf(positionInBeat, beatConfidence, pulseIntensity)
        \* STEP 6
        hasSegments == a.segments # None /\ Len(a.segments[1]) > 0
        segmentIndex ==
            IF hasSegments THEN firstMatch(progressInSeconds, a.segments[1], 1) - 1
            ELSE 0 - 1
        currentSegment == a.segments[1][segmentIndex + 1]
        bass ==
            IF segmentIndex >= 0 THEN getBassEnergy(currentSegment)
            ELSE [threw |-> FALSE, value |-> 0]
        combinedEnergy ==
            IF segmentIndex >= 0
            THEN combinedEnergyOf(normalizeLoudness(currentSegment.loudness_max), bass.value)
            ELSE 0
        segmentBoost ==
            IF segmentIndex >= 0
            THEN segmentBoostOf(combinedEnergy, sectionEnergy, tempoIntensity)
            ELSE 1000
        \* STEP 7, STEP 8
        playbackRate == combineFactors(baseRate, beatPulse, segmentBoost)
        locals ==
            [NoLocals EXCEPT
               !.threw = bass.threw, !.currentBeatIndex = currentBeatIndex,
               !.beatDuration = beatDuration, !.positionInBeat = positionInBeat,
               !.confidence = beatConfidence, !.sectionEnergy = sectionEnergy,
               !.buildUpMultiplier = buildUpMultiplier, !.sectionIndex = sectionIndex,
               !.segmentIndex = segmentIndex, !.segmentBoost = segmentBoost,
               !.clampedTempoRatio = clampedTempoRatio,
               !.tempoIntensity = tempoIntensity,
               !.sectionMultiplier = sectionMultiplier,
               !.isBuildUp = buildUp.isBuildUp,
               !.buildUpProgress = buildUp.buildUpProgress,
               !.pulseIntensity = pulseIntensity, !.beatPulse = beatPulse,
               !.combinedEnergy = combinedEnergy]
    IN  IF bass.threw
        THEN [path |-> "threw", rate |-> 0, locals |-> locals]
        ELSE [path |-> "interpolation",
              rate |-> finalClamp(playbackRate),
              locals |-> locals]

calculateDynamicPlaybackRate(progressMs, ad, bpm) ==
    IF noBeats(ad)
    THEN [path |-> "noBeats", rate |-> 1000, locals |-> NoLocals]
    ELSE LET a == ad[1]
             beats == a.beats[1]
             progressInSeconds == toSeconds(progressMs)
             currentBeatIndex == findCurrentBeatIndex(beats, progressInSeconds)
         IN  IF currentBeatIndex = 0 - 1
             THEN [path |-> "preBeat", rate |-> 400, locals |-> NoLocals]
             ELSE IF currentBeatIndex + 1 >= Len(beats)
             THEN [path |-> "postBeat",
                   rate |-> postBeatRate(beats[currentBeatIndex + 1]),
                   locals |-> [NoLocals EXCEPT
                                 !.currentBeatIndex = currentBeatIndex,
                                 !.confidence = beats[currentBeatIndex + 1].confidence]]
             ELSE fullInterpolation(progressInSeconds, a, defaultBPM(bpm), currentBeatIndex)

\* ---------------------------------------------------------------------------
\* logic.ts lines 484-623: calculateDynamicPlaybackRate, simple strategy
\* ---------------------------------------------------------------------------

\* The multiplier with three phases: no separate last phase.
beatPhaseMultiplierThreePhases(positionInBeat) ==
    IF positionInBeat < 100 THEN 1200
    ELSE IF positionInBeat < 400 THEN 1100
    ELSE 950

\* The coarse beat-position multiplier (logic.ts 602-615, app.tsx 124-137)
beatPhaseMultiplier(positionInBeat) ==
    IF positionInBeat < 100 THEN 1200
    ELSE IF positionInBeat < 400 THEN 1100
    ELSE IF positionInBeat < 700 THEN 950
    ELSE 1000

\* Line 515 (and app.tsx 97): return 0.5 + currentBeat.confidence * 1.5
postBeatRateSimple(currentBeat) == 500 + Mul(currentBeat.confidence, 1500)

\* Line 620: Math.max(0.3, Math.min(3.0, playbackRate))
finalClampSimple(playbackRate) == Max(300, Min(3000, playbackRate))

\* The section delta without its clamp.
sectionDeltaOfUnclamped(sectionLoudnessDiff) == Mul(sectionLoudnessDiff, 150)

\* Lines 559-562: Math.max(-0.15, Math.min(0.6, sectionLoudnessDiff * 0.15))
sectionDeltaOf(sectionLoudnessDiff) ==
    Max(0 - 150, Min(600, Mul(sectionLoudnessDiff, 150)))

\* Lines 583-586: Math.max(-0.1, Math.min(0.4, segmentLoudnessDiff * 0.12))
segmentDeltaOf(segmentLoudnessDiff) ==
    Max(0 - 100, Min(400, Mul(segmentLoudnessDiff, 120)))

\* Lines 518-622, reached with a current and a next beat.
simpleInterpolation(progressInSeconds, a, videoDefaultBPM, currentBeatIndex) ==
    LET currentBeat == a.beats[1][currentBeatIndex + 1]
        nextBeat == a.beats[1][currentBeatIndex + 2]
        beatDuration == nextBeat.start - currentBeat.start
        instantBPM == DivFx(60 * Scale, beatDuration)
        rateRatio0 == DivFx(instantBPM, videoDefaultBPM)
        rateRatio ==
            IF rateRatio0 < 800 /\ currentBeat.confidence > 500
            THEN Mul(rateRatio0, 1250)
            ELSE rateRatio0
        confidenceMultiplier == 400 + Mul(currentBeat.confidence, 1200)
        hasTrack == a.track # None
        sectionIndex ==
            IF hasTrack /\ a.sections # None
            THEN firstMatch(progressInSeconds, a.sections[1], 1) - 1
            ELSE 0 - 1
        sectionDelta ==
            IF sectionIndex >= 0
            THEN LET sectionLoudnessDiff ==
                         a.sections[1][sectionIndex + 1].loudness - a.track[1].loudness
                 IN  sectionDeltaOf(sectionLoudnessDiff)
            ELSE 0
        segmentIndex ==
            IF hasTrack /\ a.segments # None
            THEN firstMatch(progressInSeconds, a.segments[1], 1) - 1
            ELSE 0 - 1
        segmentDelta ==
            IF segmentIndex >= 0
            THEN LET segmentLoudnessDiff ==
                         a.segments[1][segmentIndex + 1].loudness_max - a.track[1].loudness
                 IN  segmentDeltaOf(segmentLoudnessDiff)
            ELSE 0
        loudnessMultiplier == Max(650, 1000 + sectionDelta + segmentDelta)
        positionInBeat == DivFx(progressInSeconds - currentBeat.start, beatDuration)
        playbackRate ==
            Mul(Mul(Mul(rateRatio, confidenceMultiplier), loudnessMultiplier),
                beatPhaseMultiplier(positionInBeat))
    IN  [path |-> "interpolation",
         rate |-> finalClampSimple(playbackRate),
         locals |-> [NoLocals EXCEPT
                       !.currentBeatIndex = currentBeatIndex,
                       !.beatDuration = beatDuration,
                       !.positionInBeat = positionInBeat,
                       !.confidence = currentBeat.confidence,
                       !.sectionIndex = sectionIndex,
                       !.segmentIndex = segmentIndex,
                       !.loudnessMultiplier = loudnessMultiplier,
                       !.sectionDelta = sectionDelta,
                       !.segmentDelta = segmentDelta,
                       !.beatPhaseMultiplier = beatPhaseMultiplier(positionInBeat)]]

calculateDynamicPlaybackRateSimple(progressMs, ad, bpm) ==
    IF noBeats(ad)
    THEN [path |-> "noBeats", rate |-> 1000, locals |-> NoLocals]
    ELSE LET a == ad[1]
             beats == a.beats[1]
             progressInSeconds == toSeconds(progressMs)
             currentBeatIndex == findCurrentBeatIndex(beats, progressInSeconds)
         IN  IF currentBeatIndex = 0 - 1
             THEN [path |-> "preBeat", rate |-> 300, locals |-> NoLocals]
             ELSE IF currentBeatIndex + 1 >= Len(beats)
             THEN [path |-> "postBeat",
                   rate |-> postBeatRateSimple(beats[currentBeatIndex + 1]),
                   locals |-> [NoLocals EXCEPT
                                 !.currentBeatIndex = currentBeatIndex,
                                 !.confidence = beats[currentBeatIndex + 1].confidence]]
             ELSE simpleInterpolation(progressInSeconds, a, defaultBPM(bpm), currentBeatIndex)

\* ---------------------------------------------------------------------------
\* app.tsx lines 70-149: calculateDynamicPlaybackRate of the driver.
\* bpmSetting is Number(settings.getFieldValue("raccoonwheel-webm-bpm")):
\* None stands for every falsy reading (unset, 0, NaN).
\* ---------------------------------------------------------------------------

calculateDynamicPlaybackRateApp(progressMs, ad, bpmSetting) ==
    IF noBeats(ad)
    THEN [path |-> "noBeats", rate |-> 1000, locals |-> NoLocals]
    ELSE LET a == ad[1]
             beats == a.beats[1]
             progressInSeconds == toSeconds(progressMs)
             currentBeatIndex == findCurrentBeatIndex(beats, progressInSeconds)
         IN  IF currentBeatIndex = 0 - 1
             THEN [path |-> "preBeat", rate |-> 300, locals |-> NoLocals]
             ELSE IF currentBeatIndex + 1 >= Len(beats)
             THEN [path |-> "postBeat",
                   rate |-> postBeatRateSimple(beats[currentBeatIndex + 1]),
                   locals |-> [NoLocals EXCEPT
                                 !.currentBeatIndex = currentBeatIndex,
                                 !.confidence = beats[currentBeatIndex + 1].confidence]]
             ELSE LET currentBeat == beats[currentBeatIndex + 1]
                      nextBeat == beats[currentBeatIndex + 2]
                      beatDuration == nextBeat.start - currentBeat.start
                      instantBPM == DivFx(60 * Scale, beatDuration)
                      videoDefaultBPM == defaultBPM(bpmSetting)
                      confidenceMultiplier == 600 + Mul(currentBeat.confidence, 800)
                      positionInBeat ==
                          DivFx(progressInSeconds - currentBeat.start, beatDuration)
                      playbackRate ==
                          Mul(Mul(DivFx(instantBPM, videoDefaultBPM), confidenceMultiplier),
                              beatPhaseMultiplier(positionInBeat))
                  IN  [path |-> "interpolation",
                       rate |-> Max(300, Min(2500, playbackRate)),
                       locals |-> [NoLocals EXCEPT
                                     !.currentBeatIndex = currentBeatIndex,
                                     !.beatDuration = beatDuration,
                                     !.positionInBeat = positionInBeat,
                                     !.confidence = currentBeat.confidence,
                                     !.beatPhaseMultiplier =
                                         beatPhaseMultiplier(positionInBeat)]]

\* ---------------------------------------------------------------------------
\* Inputs
\* ---------------------------------------------------------------------------

\* Longest beat, section and segment arrays, and the last tick of the position grid
MaxBeats == 3

MaxSections == 2

MaxSegments == 1

MaxTick == 8

\* All sequences over S of length at most n
SeqsUpTo(S, n) == UNION {[1..k -> S] : k \in 0..n}

\* Beat: start, confidence.  Beat.duration is never read by any variant and
\* is left out.  Confidences: two inside [0,1], one below, one above.
BeatStarts == {0, 250, 1000}

Confidences == {0 - 500, 200, 1000, 2000}

\* Beat arrays with any starts in any order (duplicates and decreasing
\* starts included), all beats of one array having the same confidence
UniformBeats ==
    {[i \in DOMAIN st |-> [start |-> st[i], confidence |-> c]] :
        st \in SeqsUpTo(BeatStarts, MaxBeats), c \in Confidences}

\* Beat arrays with increasing starts 0, 0.25, 1.0, 1.25, ... and any
\* confidence in each beat
GridStart(i) == IF i = 1 THEN 0 ELSE IF i = 2 THEN 250 ELSE 1000 + (i - 3) * 250

MixedBeats ==
    {[i \in DOMAIN cs |-> [start |-> GridStart(i), confidence |-> cs[i]]] :
        cs \in SeqsUpTo(Confidences, MaxBeats)}

OptBeats == {None} \cup {Some(b) : b \in UniformBeats \cup MixedBeats}

\* Section: start, duration, loudness (dB); the other fields are never read.
Sections ==
    [start : {0, 500}, duration : {0 - 500, 0, 500},
     loudness : {(0 - 14) * Scale, (0 - 6) * Scale}]

\* Segment: start, duration, loudness_max, timbre?
Timbres == {None, Some(<<>>), Some(<<40 * Scale>>), Some(<<40 * Scale, (0 - 50) * Scale>>)}

Segments ==
    [start : {0, 500}, duration : {0, 500}, loudness_max : {(0 - 15) * Scale},
     timbre : Timbres]

Tracks == {[tempo |-> 100 * Scale, loudness |-> (0 - 8) * Scale]}

OptSeqs(S, n) == {None} \cup {Some(q) : q \in SeqsUpTo(S, n)}

OptTracks == {None} \cup {Some(t) : t \in Tracks}

\* A few representative arrays, used where another field is varied in full
FewBeats ==
    {Some(<<[start |-> 250, confidence |-> 1000], [start |-> 1000, confidence |-> 200]>>)}

FewSections ==
    {None, Some(<<[start |-> 0, duration |-> 2000, loudness |-> (0 - 6) * Scale]>>)}

FewSegments ==
    {None,
     Some(<<[start |-> 0, duration |-> 2000, loudness_max |-> (0 - 15) * Scale,
             timbre |-> Some(<<40 * Scale, (0 - 50) * Scale>>)]>>)}

Snapshot(t, b, s, g) == Some([track |-> t, beats |-> b, sections |-> s, segments |-> g])

\* The snapshots Spicetify.getAudioData may hand over: null, or any
\* combination of absent and present fields.  One field at a time takes
\* every value of its bounded set while the others take a few.
Snapshots ==
    {None}
    \cup {Snapshot(t, b, s, g) :
            t \in OptTracks, b \in OptBeats, s \in FewSections, g \in FewSegments}
    \cup {Snapshot(t, b, s, g) :
            t \in OptTracks, b \in FewBeats, s \in OptSeqs(Sections, MaxSections),
            g \in FewSegments}
    \cup {Snapshot(t, b, s, g) :
            t \in OptTracks, b \in FewBeats, s \in FewSections,
            g \in OptSeqs(Segments, MaxSegments)}

\* Playback positions in milliseconds (Spicetify.Player.getProgress())
Positions == {k * 125 : k \in 0..MaxTick}

\* The target clip BPM handed to the engine: None is the argument left out
\* (logic.ts) or the setting unset (app.tsx), which both mean the default.
BPMs == {None, Some(120 * Scale)}

\* ---------------------------------------------------------------------------
\* State machine.  The inputs of a call (snapshot, position, target BPM) are
\* drawn by Init; each action is one call of a variant of the engine on
\* them and records what the call returned.
\* ---------------------------------------------------------------------------

NoCall == [fn |-> "none", ret |-> [path |-> "none", rate |-> 0, locals |-> NoLocals]]

Init ==
    /\ audioData \in Snapshots
    /\ currentProgress \in Positions
    /\ bpmArg \in BPMs
    /\ call = NoCall
    /\ DriverIdle

\* The full strategy smoothing its result with the rate of the call before.
CallFullSmoothed ==
    /\ call' =
           LET r == calculateDynamicPlaybackRate(currentProgress, audioData, bpmArg)
           IN  [fn |-> "full",
                ret |-> [r EXCEPT !.rate = IF call.fn = "none" THEN r.rate
                                           ELSE (r.rate + call.ret.rate) \div 2]]
    /\ UNCHANGED <<audioData, currentProgress, bpmArg, driverVars>>

CallFull ==
    /\ call' = [fn |-> "full",
                ret |-> calculateDynamicPlaybackRate(currentProgress, audioData, bpmArg)]
    /\ UNCHANGED <<audioData, currentProgress, bpmArg, driverVars>>

CallSimple ==
    /\ call' = [fn |-> "simple",
                ret |-> calculateDynamicPlaybackRateSimple(currentProgress, audioData, bpmArg)]
    /\ UNCHANGED <<audioData, currentProgress, bpmArg, driverVars>>

CallApp ==
    /\ call' = [fn |-> "app",
                ret |-> calculateDynamicPlaybackRateApp(currentProgress, audioData, bpmArg)]
    /\ UNCHANGED <<audioData, currentProgress, bpmArg, driverVars>>

Next == CallFull \/ CallSimple \/ CallApp

Spec == Init /\ [][Next]_vars

\* ---------------------------------------------------------------------------
\* A second set of inputs, for the dynamics of the full strategy (steps 3-6)
\* and the loudness modulation of the simple one: regular beats over several
\* seconds, sections long enough for the 8-second build-up window, loudness
\* steps on both sides of the 1.5 dB threshold, track tempos on both sides of
\* the intensity clamp, segments over the whole loudness and brightness range.
\* ---------------------------------------------------------------------------

\* Number of beats of a regular beat array, and the last whole second of the
\* position grid
MaxBeatCount == 12

MaxSeconds == 11

\* Beats every period seconds from 0, all with confidence c
RegularBeats(period, c) ==
    [i \in 1..MaxBeatCount |-> [start |-> (i - 1) * period, confidence |-> c]]

BeatPeriods == {500, 1000}

DynConfidences == Confidences \cup {0, 900}

\* The two beats of the boundary scenario: starts 0 and 0.5, confidence 0.9
BoundaryScenarioBeats ==
    <<[start |-> 0, confidence |-> 900], [start |-> 500, confidence |-> 900]>>

DynBeats ==
    {Some(RegularBeats(p, c)) : p \in BeatPeriods, c \in DynConfidences}
    \cup {Some(BoundaryScenarioBeats)}

\* Track tempos (BPM) below, at and above the ends of the intensity ramp
TrackTempos == {60 * Scale, 88 * Scale, 100 * Scale, 130 * Scale, 160 * Scale}

DynTracks ==
    {None} \cup {Some([tempo |-> t, loudness |-> (0 - 8) * Scale]) : t \in TrackTempos}

DynFewTracks ==
    {None} \cup {Some([tempo |-> t, loudness |-> (0 - 8) * Scale]) :
                    t \in {100 * Scale, 160 * Scale}}

\* Section loudness (dB), the loudness step to the next section (1.5 dB,
\* just above it, below it, well above it) and the first section's duration
SectionLoudnesses ==
    {(0 - 14) * Scale, (0 - 13) * Scale, (0 - 8) * Scale, (0 - 5) * Scale, (0 - 4) * Scale}

LoudnessSteps == {0 - 1000, 1500, 1501, 3000}

FirstDurations == {4000, 10000}

\* Two adjacent sections, the second starting where the first ends
SectionPair(d, l, s) ==
    <<[start |-> 0, duration |-> d, loudness |-> l],
      [start |-> d, duration |-> 2000, loudness |-> l + s]>>

\* Two sections that both start at 0, the second longer and 3 dB louder
OverlappingPair(d, l) ==
    <<[start |-> 0, duration |-> d, loudness |-> l],
      [start |-> 0, duration |-> d + 2000, loudness |-> l + 3000]>>

DynSections ==
    {None, Some(<<>>)}
    \cup {Some(SectionPair(d, l, s)) :
            d \in FirstDurations, l \in SectionLoudnesses, s \in LoudnessSteps}
    \cup {Some(<<[start |-> 0, duration |-> d, loudness |-> l]>>) :
            d \in FirstDurations, l \in SectionLoudnesses}
    \cup {Some(OverlappingPair(d, (0 - 5) * Scale)) : d \in FirstDurations}

DynFewSections == {None, Some(SectionPair(10000, (0 - 8) * Scale, 3000))}

\* Segments: peak loudness from below -60 dB to above 0 dB, brightness
\* (timbre[1]) from below -100 to above +100, timbre absent or too short
DynTimbres ==
    Timbres \cup {Some(<<40 * Scale, b * Scale>>) : b \in {0 - 150, 0, 150}}

DynSegments ==
    {None, Some(<<>>)}
    \cup {Some(<<[start |-> 0, duration |-> d, loudness_max |-> l * Scale, timbre |-> t]>>) :
            d \in {100, 12000}, l \in {0 - 70, 0 - 30, 0 - 15, 0, 5}, t \in DynTimbres}

DynFewSegments ==
    {None}
    \cup {Some(<<[start |-> 0, duration |-> 12000, loudness_max |-> l * Scale,
                  timbre |-> Some(<<40 * Scale, (0 - 50) * Scale>>)]>>) :
            l \in {0 - 15, 0}}

DynFewBeats == {Some(RegularBeats(1000, 900))}

DynSnapshots ==
    {Snapshot(t, b, s, g) :
        t \in DynTracks, b \in DynBeats, s \in DynFewSections, g \in DynFewSegments}
    \cup {Snapshot(t, b, s, g) :
            t \in DynTracks, b \in DynFewBeats, s \in DynSections, g \in DynFewSegments}
    \cup {Snapshot(t, b, s, g) :
            t \in DynFewTracks, b \in DynFewBeats, s \in DynFewSections, g \in DynSegments}

\* Positions (ms): inside the first beat at the envelope's branch points,
\* then every whole second
DynPositions == {0, 75, 150, 250, 500, 750} \cup {k * 1000 : k \in 1..MaxSeconds}

InitDynamics ==
    /\ audioData \in DynSnapshots
    /\ currentProgress \in DynPositions
    /\ bpmArg \in BPMs
    /\ call = NoCall
    /\ DriverIdle

SpecDynamics == InitDynamics /\ [][Next]_vars

\* ---------------------------------------------------------------------------
\* Vocabulary of the properties, stated on the inputs and on what was returned
\* ---------------------------------------------------------------------------

Called == call.fn # "none"

Ret == call.ret

\* The position in seconds
ProgressSeconds == (currentProgress * Scale) \div 1000

BeatsMissing ==
    \/ audioData = None
    \/ audioData[1].beats = None
    \/ audioData[1].beats = Some(<<>>)

BeatsOf == IF BeatsMissing THEN <<>> ELSE audioData[1].beats[1]

SectionsOf ==
    IF audioData = None \/ audioData[1].sections = None THEN <<>>
    ELSE audioData[1].sections[1]

SegmentsOf ==
    IF audioData = None \/ audioData[1].segments = None THEN <<>>
    ELSE audioData[1].segments[1]

NonDecreasingStarts ==
    \A i, j \in DOMAIN BeatsOf : i < j => BeatsOf[i].start <= BeatsOf[j].start

ConfidencesInUnitRange ==
    \A i \in DOMAIN BeatsOf : BeatsOf[i].confidence >= 0 /\ BeatsOf[i].confidence <= Scale

ValidSnapshot == NonDecreasingStarts /\ ConfidencesInUnitRange

\* The variant named fn applied to a snapshot
RateOf(fn, ad) ==
    IF fn = "full" THEN calculateDynamicPlaybackRate(currentProgress, ad, bpmArg)
    ELSE IF fn = "simple" THEN calculateDynamicPlaybackRateSimple(currentProgress, ad, bpmArg)
    ELSE calculateDynamicPlaybackRateApp(currentProgress, ad, bpmArg)

WithConfidence(i, c) ==
    Some([audioData[1] EXCEPT !.beats = Some([BeatsOf EXCEPT ![i].confidence = c])])

WithSections(s) == Some([audioData[1] EXCEPT !.sections = s])

WithSegments(g) == Some([audioData[1] EXCEPT !.segments = g])

WithTrack(t) == Some([audioData[1] EXCEPT !.track = t])

Contains(x) == ProgressSeconds >= x.start /\ ProgressSeconds < x.start + x.duration

\* The greatest 0-based index whose beat starts at or before the position, -1 if none
GreatestIndex ==
    LET S == {i \in DOMAIN BeatsOf : BeatsOf[i].start <= ProgressSeconds}
    IN  IF S = {} THEN 0 - 1 ELSE (CHOOSE i \in S : \A j \in S : j <= i) - 1

\* ---------------------------------------------------------------------------
\* C1.  For every position >= 0 and every valid snapshot (non-decreasing beat
\* starts, confidences in [0,1]) the returned rate lies in the strategy's
\* clamp band on every return path: [0.4, 2.5] for the full strategy,
\* [0.3, 3.0] for the simple one (the driver's variant included).
\* ---------------------------------------------------------------------------
C1_RateWithinClampBand ==
    (Called /\ ValidSnapshot) =>
        /\ Ret.path \in {"noBeats", "preBeat", "postBeat", "interpolation"}
        /\ call.fn = "full" => (Ret.rate >= 400 /\ Ret.rate <= 2500)
        /\ call.fn \in {"simple", "app"} => (Ret.rate >= 300 /\ Ret.rate <= 3000)

\* A valid snapshot on the interpolation path whose product falls below the
\* band and is held at 0.4 by the final clamp
C1_Witness ==
    /\ call.fn = "full"
    /\ ValidSnapshot
    /\ Ret.path = "interpolation"
    /\ Ret.rate = 400

\* ---------------------------------------------------------------------------
\* C2.  For any snapshot, malformed ones included, every return path of the
\* full strategy yields a value inside [0.4, 2.5].
\* ---------------------------------------------------------------------------
C2_AnySnapshotWithinBand ==
    call.fn = "full" => (Ret.rate >= 400 /\ Ret.rate <= 2500)

\* ---------------------------------------------------------------------------
\* C3.  Beat confidence is clamped into [0,1] before use: the rate computed
\* with the current beat's confidence c equals the rate computed with that
\* confidence replaced by min(1, max(0, c)), on the post-beat path and on the
\* beat-pulse path.
\* ---------------------------------------------------------------------------
C3_ConfidenceClampedBeforeUse ==
    (call.fn = "full" /\ Ret.path \in {"postBeat", "interpolation"}) =>
        LET i == Ret.locals.currentBeatIndex + 1
            c == BeatsOf[i].confidence
        IN  Ret.rate = RateOf("full", WithConfidence(i, Max(0, Min(Scale, c)))).rate

\* ---------------------------------------------------------------------------
\* C4.  The engine returns exactly 1 whenever the snapshot is null, its beats
\* are absent or its beat array is empty, whatever the position, target BPM,
\* track, sections and segments.
\* ---------------------------------------------------------------------------
C4_NoBeatsReturnsOne ==
    (Called /\ BeatsMissing) => (Ret.rate = 1000 /\ Ret.path = "noBeats")

C4_Witness ==
    /\ call.fn = "full"
    /\ audioData # None
    /\ audioData[1].beats = Some(<<>>)
    /\ audioData[1].sections # None
    /\ Ret.rate = 1000

\* ---------------------------------------------------------------------------
\* C5.  With a non-empty beat array and the position strictly before the
\* first beat's start, the engine returns the fixed pre-beat rate (0.4 full,
\* 0.3 simple), whatever the other fields are; it is never 0.
\* ---------------------------------------------------------------------------
C5_PreBeatFixedRate ==
    (Called /\ ~BeatsMissing /\ ProgressSeconds < BeatsOf[1].start) =>
        /\ Ret.path = "preBeat"
        /\ Ret.rate = (IF call.fn = "full" THEN 400 ELSE 300)
        /\ Ret.rate # 0

C5_Witness ==
    /\ call.fn = "simple"
    /\ ~BeatsMissing
    /\ ProgressSeconds < BeatsOf[1].start
    /\ audioData[1].track # None
    /\ audioData[1].segments # None
    /\ Ret.rate = 300

\* ---------------------------------------------------------------------------
\* C6.  When the located beat is the last beat of the array, the engine
\* returns 0.5 + confidence * gain of that beat (gain 0.3 full, 1.5 simple),
\* whatever the position within it, the track, sections, segments and BPM.
\* ---------------------------------------------------------------------------
C6_PostBeatRate ==
    (Called /\ ~BeatsMissing
            /\ \A i \in DOMAIN BeatsOf : BeatsOf[i].start <= ProgressSeconds) =>
        LET last == BeatsOf[Len(BeatsOf)]
            gain == IF call.fn = "full" THEN 300 ELSE 1500
        IN  /\ Ret.path = "postBeat"
            /\ Ret.rate = 500 + (last.confidence * gain) \div Scale

C6_Witness ==
    /\ call.fn = "full"
    /\ Ret.path = "postBeat"
    /\ Len(BeatsOf) >= 2
    /\ ProgressSeconds > BeatsOf[Len(BeatsOf)].start
    /\ BeatsOf[Len(BeatsOf)].confidence = 1000
    /\ Ret.rate = 800

\* ---------------------------------------------------------------------------
\* C7.  Beat location: the index chosen is the greatest i with
\* beats[i].start <= position (pre-beat when there is none, post-beat when it
\* is the last); otherwise the span is beats[i+1].start - beats[i].start and
\* the phase (position - beats[i].start) / span lies in [0,1).
\* ---------------------------------------------------------------------------
LocatedAtGreatestIndex ==
    LET g == GreatestIndex
    IN  IF g = 0 - 1 THEN Ret.path = "preBeat"
        ELSE IF g = Len(BeatsOf) - 1
        THEN Ret.path = "postBeat" /\ Ret.locals.currentBeatIndex = g
        ELSE LET span == BeatsOf[g + 2].start - BeatsOf[g + 1].start
             IN  /\ Ret.path = "interpolation"
                 /\ Ret.locals.currentBeatIndex = g
                 /\ Ret.locals.beatDuration = span
                 /\ span > 0
                 /\ Ret.locals.positionInBeat =
                        ((ProgressSeconds - BeatsOf[g + 1].start) * Scale) \div span
                 /\ Ret.locals.positionInBeat >= 0
                 /\ Ret.locals.positionInBeat < Scale

\* as stated: for every beat sequence
C7_GreatestIndexAnySequence ==
    (Called /\ ~BeatsMissing) => LocatedAtGreatestIndex

\* as amended: for every beat sequence whose starts are non-decreasing
C7_GreatestIndexSortedSequence ==
    (Called /\ ~BeatsMissing /\ NonDecreasingStarts) => LocatedAtGreatestIndex

C7_Witness ==
    /\ call.fn = "full"
    /\ NonDecreasingStarts
    /\ Len(BeatsOf) = 3
    /\ Ret.path = "interpolation"
    /\ Ret.locals.currentBeatIndex = 1
    /\ Ret.locals.positionInBeat > 0

\* ---------------------------------------------------------------------------
\* C8.  Division guard: whenever the engine divides by a beat span the span
\* is strictly positive, for every beat sequence (duplicate, zero-spaced and
\* decreasing starts included); and a section or segment whose duration is
\* zero or negative never matches a position and contributes the neutral
\* value.
\* ---------------------------------------------------------------------------
C8_DivisionGuard ==
    Called =>
        /\ Ret.path = "interpolation" => Ret.locals.beatDuration > 0
        /\ Ret.locals.sectionIndex >= 0 =>
              SectionsOf[Ret.locals.sectionIndex + 1].duration > 0
        /\ Ret.locals.segmentIndex >= 0 =>
              SegmentsOf[Ret.locals.segmentIndex + 1].duration > 0
        /\ (Ret.path = "interpolation" /\ call.fn = "full"
                /\ \A i \in DOMAIN SectionsOf : SectionsOf[i].duration <= 0) =>
              (Ret.locals.sectionEnergy = 500 /\ Ret.locals.buildUpMultiplier = 1000)
        /\ (Ret.path = "interpolation" /\ call.fn = "full"
                /\ \A i \in DOMAIN SegmentsOf : SegmentsOf[i].duration <= 0) =>
              Ret.locals.segmentBoost = 1000
        /\ (Ret.path = "interpolation" /\ call.fn = "simple"
                /\ (\A i \in DOMAIN SectionsOf : SectionsOf[i].duration <= 0)
                /\ (\A j \in DOMAIN SegmentsOf : SegmentsOf[j].duration <= 0)) =>
              Ret.locals.loudnessMultiplier = 1000

\* A zero-duration section starting exactly at the position, and a
\* negative-duration one, on the interpolation path
C8_Witness ==
    /\ call.fn = "full"
    /\ Ret.path = "interpolation"
    /\ Len(SectionsOf) = 2
    /\ SectionsOf[1].duration = 0
    /\ SectionsOf[1].start = ProgressSeconds
    /\ SectionsOf[2].duration < 0
    /\ Ret.locals.beatDuration > 0
    /\ Ret.locals.sectionEnergy = 500

\* ---------------------------------------------------------------------------
\* C9.  Missing-data equivalence: the rate with sections absent equals the
\* rate with sections = [] and the rate with a non-empty array none of whose
\* intervals contains the position; likewise for segments.
\* ---------------------------------------------------------------------------
C9_MissingDataEquivalence ==
    (call.fn \in {"full", "simple"} /\ audioData # None) =>
        /\ (\A i \in DOMAIN SectionsOf : ~Contains(SectionsOf[i])) =>
              /\ Ret.rate = RateOf(call.fn, WithSections(None)).rate
              /\ Ret.rate = RateOf(call.fn, WithSections(Some(<<>>))).rate
        /\ (\A i \in DOMAIN SegmentsOf : ~Contains(SegmentsOf[i])) =>
              /\ Ret.rate = RateOf(call.fn, WithSegments(None)).rate
              /\ Ret.rate = RateOf(call.fn, WithSegments(Some(<<>>))).rate

C9_Witness ==
    /\ call.fn = "full"
    /\ Ret.path = "interpolation"
    /\ Len(SectionsOf) = 2
    /\ \A i \in DOMAIN SectionsOf : ~Contains(SectionsOf[i])
    /\ \E i \in DOMAIN SectionsOf : SectionsOf[i].duration > 0
    /\ Ret.rate = RateOf("full", WithSections(None)).rate
    /\ Ret.rate > 400

\* ---------------------------------------------------------------------------
\* C10.  No error state for any combination of missing optional fields:
\* with the track absent (defaults loudness -10, tempo 120), sections absent,
\* segments absent, or a matched segment whose timbre is absent, empty or
\* shorter than 2, the engine still returns a number, and each missing
\* collection contributes its neutral value (section energy 0.5, build-up
\* multiplier 1.0, segment boost 1.0).
\* ---------------------------------------------------------------------------
C10_NoErrorOnMissingFields ==
    Called =>
        /\ ~Ret.locals.threw
        /\ Ret.path \in {"noBeats", "preBeat", "postBeat", "interpolation"}
        /\ (call.fn = "full" /\ audioData # None /\ audioData[1].track = None) =>
              Ret = RateOf("full", WithTrack(Some([tempo |-> 120 * Scale,
                                                   loudness |-> (0 - 10) * Scale])))
        /\ (call.fn = "full" /\ Ret.path = "interpolation") =>
              /\ audioData[1].sections = None =>
                    (Ret.locals.sectionEnergy = 500 /\ Ret.locals.buildUpMultiplier = 1000)
              /\ audioData[1].segments = None => Ret.locals.segmentBoost = 1000
        /\ (call.fn = "simple" /\ Ret.path = "interpolation") =>
              ((audioData[1].track = None
                  \/ (audioData[1].sections = None /\ audioData[1].segments = None)) =>
                 Ret.locals.loudnessMultiplier = 1000)

\* Track and sections absent, and a matched segment without timbre
C10_Witness ==
    /\ call.fn = "full"
    /\ Ret.path = "interpolation"
    /\ audioData[1].track = None
    /\ audioData[1].sections = None
    /\ Ret.locals.segmentIndex >= 0
    /\ SegmentsOf[Ret.locals.segmentIndex + 1].timbre = None
    /\ Ret.locals.segmentBoost > 1000

\* ---------------------------------------------------------------------------
\* Vocabulary of the properties of the full strategy's factors
\* ---------------------------------------------------------------------------

\* The full strategy returned from its interpolation path
OnFullInterpolation == call.fn = "full" /\ Ret.path = "interpolation"

\* The 1-based position of the first section holding the position, 0 if none
ContainingSection ==
    LET S == {i \in DOMAIN SectionsOf : Contains(SectionsOf[i])}
    IN  IF S = {} THEN 0 ELSE CHOOSE i \in S : \A j \in S : i <= j

\* Seconds from the position to the end of the containing section
TimeRemaining ==
    LET k == ContainingSection
    IN  (SectionsOf[k].start + SectionsOf[k].duration) - ProgressSeconds

\* Loudness of the section after the containing one minus the containing one's
LoudnessStep ==
    LET k == ContainingSection
    IN  SectionsOf[k + 1].loudness - SectionsOf[k].loudness

\* ---------------------------------------------------------------------------
\* C11.  Build-up detection: for a position inside section k, build-up is
\* present if and only if section k+1 exists, its loudness exceeds section
\* k's by strictly more than 1.5 dB, and the time remaining until the end of
\* section k is at most 8 seconds; in every other case build-up is absent and
\* the build-up multiplier is exactly 1.0.
\* ---------------------------------------------------------------------------
C11_BuildUpExpected ==
    /\ ContainingSection > 0
    /\ ContainingSection < Len(SectionsOf)
    /\ 2 * LoudnessStep > 3 * Scale
    /\ TimeRemaining <= 8 * Scale

C11_BuildUpDetection ==
    OnFullInterpolation =>
        /\ Ret.locals.isBuildUp <=> C11_BuildUpExpected
        /\ ~C11_BuildUpExpected => Ret.locals.buildUpMultiplier = Scale

\* Build-up found inside the window before a section only just more than
\* 1.5 dB louder, and the multiplier raised by it
C11_Witness ==
    /\ OnFullInterpolation
    /\ Ret.locals.isBuildUp
    /\ LoudnessStep = 1501
    /\ TimeRemaining < 8 * Scale
    /\ Ret.locals.buildUpMultiplier > Scale

\* The positions of both input sets
AllPositions == Positions \cup DynPositions

\* What the full strategy returns at another position of the same snapshot
FullAt(progressMs) == calculateDynamicPlaybackRate(progressMs, audioData, bpmArg)

\* The later positions that the full strategy places in the same section
LaterInSameSection ==
    {p \in AllPositions :
        /\ p > currentProgress
        /\ FullAt(p).path = "interpolation"
        /\ FullAt(p).locals.sectionIndex = Ret.locals.sectionIndex}

\* ---------------------------------------------------------------------------
\* C12.  Build-up ramp: inside the 8-second window before a boundary to a
\* section more than 1.5 dB louder, build-up progress equals
\* 1 - (time remaining)/8 within [0,1] (0.5 at 4 seconds before the boundary);
\* the multiplier 1 + progress * 0.4 * tempo_intensity is non-decreasing as
\* the position advances toward the boundary, strictly greater than 1.0 at
\* 4 seconds before it and strictly less there than at progress 1.0.
\* Progress is compared up to one step of the number grid.
\* ---------------------------------------------------------------------------
C12_BuildUpRamp ==
    (OnFullInterpolation /\ Ret.locals.isBuildUp) =>
        LET progress == Ret.locals.buildUpProgress
            tI == Ret.locals.tempoIntensity
            m == Ret.locals.buildUpMultiplier
            atFullProgress == Scale + Mul(Mul(Scale, 400), tI)
        IN  /\ progress >= 0 /\ progress <= Scale
            /\ 8 * (Scale - progress) <= TimeRemaining
            /\ TimeRemaining < 8 * (Scale - progress) + 8
            /\ m = Scale + Mul(Mul(progress, 400), tI)
            /\ \A p \in LaterInSameSection :
                   /\ FullAt(p).locals.isBuildUp
                   /\ FullAt(p).locals.buildUpMultiplier >= m
            /\ TimeRemaining = 4 * Scale =>
                   /\ 2 * progress = Scale
                   /\ m > Scale
                   /\ m < atFullProgress

\* Four seconds before the boundary, with a later position of the same
\* section where the multiplier is strictly larger
C12_Witness ==
    /\ OnFullInterpolation
    /\ Ret.locals.isBuildUp
    /\ TimeRemaining = 4 * Scale
    /\ 2 * Ret.locals.buildUpProgress = Scale
    /\ \E p \in LaterInSameSection :
           FullAt(p).locals.buildUpMultiplier > Ret.locals.buildUpMultiplier

\* trackLoudness of line 188: the track's loudness, -10 dB without a track
TrackLoudness ==
    IF audioData[1].track = None THEN (0 - 10) * Scale ELSE audioData[1].track[1].loudness

\* ---------------------------------------------------------------------------
\* C13.  Section energy: the section used is the first one whose half-open
\* interval [start, start+duration) contains the position; its energy is
\* clamp((section.loudness - track_loudness + 5) / 8, 0, 1), so it is always
\* in [0,1], 0 at -5 dB or below and 1 at +3 dB or above; when no section
\* contains the position the energy is exactly 0.5 and there is no build-up.
\* The quotient is compared up to one step of the number grid.
\* ---------------------------------------------------------------------------
C13_SectionEnergy ==
    OnFullInterpolation =>
        LET k == ContainingSection
            energy == Ret.locals.sectionEnergy
        IN  IF k = 0
            THEN /\ Ret.locals.sectionIndex = 0 - 1
                 /\ 2 * energy = Scale
                 /\ ~Ret.locals.isBuildUp
                 /\ Ret.locals.buildUpMultiplier = Scale
            ELSE LET diff == SectionsOf[k].loudness - TrackLoudness
                 IN  /\ Ret.locals.sectionIndex = k - 1
                     /\ energy >= 0 /\ energy <= Scale
                     /\ diff <= (0 - 5) * Scale => energy = 0
                     /\ diff >= 3 * Scale => energy = Scale
                     /\ (diff > (0 - 5) * Scale /\ diff < 3 * Scale) =>
                            /\ 8 * energy <= diff + 5 * Scale
                            /\ diff + 5 * Scale < 8 * energy + 8

\* Two sections hold the position, the first 3 dB above the track and the
\* second louder still: the first is used and its energy is 1
C13_Witness ==
    /\ OnFullInterpolation
    /\ ContainingSection = 1
    /\ Len(SectionsOf) = 2
    /\ Contains(SectionsOf[2])
    /\ SectionsOf[1].loudness - TrackLoudness = 3 * Scale
    /\ Ret.locals.sectionEnergy = Scale

\* The 1-based position of the first segment holding the position, 0 if none
ContainingSegment ==
    LET S == {i \in DOMAIN SegmentsOf : Contains(SegmentsOf[i])}
    IN  IF S = {} THEN 0 ELSE CHOOSE i \in S : \A j \in S : i <= j

\* clamp(x, 0, 1)
Clamp01(x) == IF x < 0 THEN 0 ELSE IF x > Scale THEN Scale ELSE x

\* The segment carries timbre[1]
HasBrightness(seg) == seg.timbre # None /\ Len(seg.timbre[1]) >= 2

\* ---------------------------------------------------------------------------
\* C14.  Segment punch: for the segment whose half-open interval contains the
\* position, punch = 0.6 * clamp((loudness_max + 60)/60, 0, 1)
\* + 0.4 * clamp((-timbre[1] + 100)/200, 0, 1), which lies in [0,1], and the
\* segment boost is 1 + punch * (0.15 + 0.25 * section_energy) *
\* tempo_intensity, which lies in [1.0, 1.4]; when no segment contains the
\* position the boost is exactly 1.0.  The punch formula is checked for the
\* segments that carry timbre[1], the two ranges for every segment.
\* ---------------------------------------------------------------------------
C14_SegmentPunch ==
    OnFullInterpolation =>
        LET g == ContainingSegment
            punch == Ret.locals.combinedEnergy
            boost == Ret.locals.segmentBoost
        IN  IF g = 0
            THEN Ret.locals.segmentIndex = 0 - 1 /\ boost = Scale
            ELSE LET seg == SegmentsOf[g]
                     loud == Clamp01(DivFx(seg.loudness_max + 60 * Scale, 60 * Scale))
                     bassy == Clamp01(DivFx((0 - seg.timbre[1][2]) + 100 * Scale, 200 * Scale))
                     gain == Mul(150 + Mul(Ret.locals.sectionEnergy, 250),
                                 Ret.locals.tempoIntensity)
                 IN  /\ Ret.locals.segmentIndex = g - 1
                     /\ HasBrightness(seg) => punch = Mul(loud, 600) + Mul(bassy, 400)
                     /\ punch >= 0 /\ punch <= Scale
                     /\ boost = Scale + Mul(punch, gain)
                     /\ boost >= Scale /\ boost <= 1400

\* The loudest, most bass-heavy segment in a section of energy 1 of a fast
\* track: punch 1 and the boost at its maximum 1.4
C14_Witness ==
    /\ OnFullInterpolation
    /\ ContainingSegment > 0
    /\ HasBrightness(SegmentsOf[ContainingSegment])
    /\ Ret.locals.combinedEnergy = Scale
    /\ Ret.locals.segmentBoost = 1400

\* Phases 0, 0.025, ..., 0.975 of a beat
PhaseGrid == {25 * k : k \in 0..39}

\* ---------------------------------------------------------------------------
\* C15.  Beat pulse envelope boundaries: with strength =
\* (0.3 + 0.5*confidence) * pulse_intensity and confidence in [0,1], the pulse
\* is exactly 1.0 at phase 0, the attack formula (phase < 0.15) and the decay
\* formula (0.15 <= phase < 0.5) agree at phase 0.15 with value 1.0 + strength,
\* the decay and rest formulas agree at phase 0.5 with value 1.0, and the
\* pulse is never below 1.0 nor above 1.0 + strength for any phase in [0,1).
\* ---------------------------------------------------------------------------
C15_BeatPulseEnvelope ==
    (/\ OnFullInterpolation
     /\ Ret.locals.confidence >= 0 /\ Ret.locals.confidence <= Scale
     /\ Ret.locals.positionInBeat >= 0 /\ Ret.locals.positionInBeat < Scale) =>
        LET c == Ret.locals.confidence
            pI == Ret.locals.pulseIntensity
            phase == Ret.locals.positionInBeat
            pulse == Ret.locals.beatPulse
            strength == Mul(300 + Mul(c, 500), pI)
        IN  /\ beatPulseOf(0, c, pI) = Scale
            /\ attackPulse(150, c, pI) = Scale + strength
            /\ decayPulse(150, c, pI) = Scale + strength
            /\ decayPulse(500, c, pI) = Scale
            /\ restPulse(500, c, pI) = Scale
            /\ pulse >= Scale /\ pulse <= Scale + strength
            /\ phase = 0 => pulse = Scale
            /\ phase = 150 => pulse = Scale + strength
            /\ phase = 500 => pulse = Scale
            /\ \A ph \in PhaseGrid :
                   /\ beatPulseOf(ph, c, pI) >= Scale
                   /\ beatPulseOf(ph, c, pI) <= Scale + strength

\* A call at phase 0.15 of a beat of confidence 0.9: the pulse at its peak,
\* strictly above 1.0
C15_Witness ==
    /\ OnFullInterpolation
    /\ Ret.locals.confidence = 900
    /\ Ret.locals.positionInBeat = 150
    /\ Ret.locals.beatPulse > Scale
    /\ Ret.locals.beatPulse =
           Scale + Mul(300 + Mul(900, 500), Ret.locals.pulseIntensity)

\* ---------------------------------------------------------------------------
\* C16.  Composition: on the interpolation path the returned rate equals
\* clamp(tempo_ratio * section_multiplier * build_up_multiplier * beat_pulse
\* * segment_boost, 0.4, 2.5), where tempo_ratio =
\* clamp((60 / beat span) / target_base_bpm, 0.6, 1.4); no other factor enters
\* the product.
\* ---------------------------------------------------------------------------
C16_Composition ==
    OnFullInterpolation =>
        LET L == Ret.locals
            span == BeatsOf[L.currentBeatIndex + 2].start
                        - BeatsOf[L.currentBeatIndex + 1].start
            target == IF bpmArg = None THEN 130 * Scale ELSE bpmArg[1]
            ratio == DivFx(DivFx(60 * Scale, span), target)
            tempoRatio == IF ratio < 600 THEN 600 ELSE IF ratio > 1400 THEN 1400 ELSE ratio
            product ==
                Mul(Mul(Mul(Mul(tempoRatio, L.sectionMultiplier), L.buildUpMultiplier),
                        L.beatPulse),
                    L.segmentBoost)
        IN  /\ L.clampedTempoRatio = tempoRatio
            /\ Ret.rate = (IF product < 400 THEN 400
                           ELSE IF product > 2500 THEN 2500 ELSE product)

\* A call where each of the five factors differs from 1 and the product is
\* returned unclamped
C16_Witness ==
    /\ OnFullInterpolation
    /\ Ret.locals.clampedTempoRatio # Scale
    /\ Ret.locals.sectionMultiplier # Scale
    /\ Ret.locals.buildUpMultiplier > Scale
    /\ Ret.locals.beatPulse > Scale
    /\ Ret.locals.segmentBoost > Scale
    /\ Ret.rate > 400 /\ Ret.rate < 2500

TrackAbsent == audioData # None /\ audioData[1].track = None

BoundaryScenario ==
    /\ audioData = Snapshot(None, Some(BoundaryScenarioBeats), None, None)
    /\ bpmArg = Some(120 * Scale)
    /\ currentProgress = 0

\* ---------------------------------------------------------------------------
\* C19.  Boundary scenario: with beats [{start 0, confidence 0.9},
\* {start 0.5, confidence 0.9}], no track, no sections, no segments, target
\* BPM 120 and position 0 ms, the full-strategy rate lies within [0.9, 1.3]
\* (instant BPM 120, tempo ratio 1.0).
\* ---------------------------------------------------------------------------
C19_BoundaryScenarioRate ==
    (call.fn = "full" /\ BoundaryScenario) =>
        /\ Ret.path = "interpolation"
        /\ DivFx(60 * Scale, Ret.locals.beatDuration) = 120 * Scale
        /\ Ret.locals.clampedTempoRatio = Scale
        /\ Ret.rate >= 900
        /\ Ret.rate <= 1300

\* The scenario called: phase 0, pulse 1.0, and the rate is the section
\* multiplier of the neutral energy 0.5 at tempo intensity 5/6
C19_Witness ==
    /\ call.fn = "full"
    /\ BoundaryScenario
    /\ Ret.locals.positionInBeat = 0
    /\ Ret.locals.beatPulse = Scale
    /\ Ret.rate = Ret.locals.sectionMultiplier

\* The simple strategy returned from its interpolation path
OnSimpleInterpolation == call.fn = "simple" /\ Ret.path = "interpolation"

\* clamp(x, lo, hi)
ClampTo(x, lo, hi) == IF x < lo THEN lo ELSE IF x > hi THEN hi ELSE x

\* ---------------------------------------------------------------------------
\* C20.  Simple strategy loudness modulation: the section delta is
\* clamp(0.15 * (section.loudness - track.loudness), -0.15, 0.6), the segment
\* delta is clamp(0.12 * (segment.loudness_max - track.loudness), -0.1, 0.4),
\* each clamped independently, and the loudness multiplier is
\* max(0.65, 1 + section delta + segment delta); it is exactly 1.0 when the
\* track is absent, and for every input it lies in [0.75, 2.0], so the 0.65
\* floor never changes the value.
\* ---------------------------------------------------------------------------
C20_SimpleLoudness ==
    OnSimpleInterpolation =>
        LET L == Ret.locals
            m == L.loudnessMultiplier
            k == ContainingSection
            g == ContainingSegment
        IN  /\ TrackAbsent => m = Scale
            /\ ~TrackAbsent =>
                   LET tl == audioData[1].track[1].loudness
                       sd == IF k = 0 THEN 0
                             ELSE ClampTo(Mul(SectionsOf[k].loudness - tl, 150),
                                          0 - 150, 600)
                       gd == IF g = 0 THEN 0
                             ELSE ClampTo(Mul(SegmentsOf[g].loudness_max - tl, 120),
                                          0 - 100, 400)
                   IN  /\ L.sectionDelta = sd
                       /\ L.segmentDelta = gd
                       /\ m = (IF Scale + sd + gd < 650 THEN 650 ELSE Scale + sd + gd)
            /\ m >= 750 /\ m <= 2000
            /\ m = Scale + L.sectionDelta + L.segmentDelta

\* A quiet section and a quiet segment, both deltas at their lower clamp:
\* the multiplier at its least value 0.75, above the 0.65 floor
C20_Witness ==
    /\ OnSimpleInterpolation
    /\ Ret.locals.sectionDelta = 0 - 150
    /\ Ret.locals.segmentDelta = 0 - 100
    /\ Ret.locals.loudnessMultiplier = 750

\* ---------------------------------------------------------------------------
\* Vocabulary of the simple strategy's beat-position multiplier
\* ---------------------------------------------------------------------------

\* The simple strategy or the driver's variant returned from interpolation
\* with the phase inside [0,1)
SteppedCallInBeat ==
    /\ call.fn \in {"simple", "app"}
    /\ Ret.path = "interpolation"
    /\ Ret.locals.positionInBeat >= 0
    /\ Ret.locals.positionInBeat < Scale

\* The values the multiplier takes over the phases of a beat
PhaseMultipliers == {beatPhaseMultiplier(ph) : ph \in PhaseGrid}

\* The phases of the grid on which the multiplier has the value m
PhaseOf(m) == {ph \in PhaseGrid : beatPhaseMultiplier(ph) = m}

\* A set of grid phases without a gap
IsInterval(S) ==
    \A z \in PhaseGrid \ S : (\A x \in S : x < z) \/ (\A x \in S : z < x)

\* ---------------------------------------------------------------------------
\* C21.  Simple strategy beat-position multiplier is a step function of the
\* phase within the beat.  As claimed: it partitions [0,1) into exactly three
\* phases, each with one constant multiplier.
\* ---------------------------------------------------------------------------
C21_ThreePhases ==
    SteppedCallInBeat =>
        /\ Ret.locals.beatPhaseMultiplier \in PhaseMultipliers
        /\ \A m \in PhaseMultipliers : IsInterval(PhaseOf(m))
        /\ Cardinality(PhaseMultipliers) = 3

\* C21 as the code has it: four phases, [0, 0.1) with 1.2, [0.1, 0.4) with
\* 1.1, [0.4, 0.7) with 0.95 and [0.7, 1) with 1.0.
C21_FourPhases ==
    SteppedCallInBeat =>
        LET phase == Ret.locals.positionInBeat
            m == Ret.locals.beatPhaseMultiplier
        IN  /\ phase < 100 => m = 1200
            /\ (phase >= 100 /\ phase < 400) => m = 1100
            /\ (phase >= 400 /\ phase < 700) => m = 950
            /\ phase >= 700 => m = 1000
            /\ \A v \in PhaseMultipliers : IsInterval(PhaseOf(v))
            /\ Cardinality(PhaseMultipliers) = 4

\* A call of the simple strategy in the fourth phase, where the multiplier
\* is neither of the three before it
C21_Witness ==
    /\ SteppedCallInBeat
    /\ call.fn = "simple"
    /\ Ret.locals.positionInBeat >= 700
    /\ Ret.locals.beatPhaseMultiplier = 1000

\* ---------------------------------------------------------------------------
\* C29.  Section multiplier band: section_multiplier =
\* (0.5 + 0.2 * (1 - tempo_intensity)) + section_energy * tempo_intensity; for
\* tempo_intensity 1.0 it ranges over [0.5, 1.5] as section energy goes from
\* 0 to 1, and for the slowest songs (tempo_intensity 0.3) it ranges over
\* [0.7, 1.15], the band getting narrower as tempo_intensity decreases.
\* ---------------------------------------------------------------------------
C29_SectionMultiplierBand ==
    OnFullInterpolation =>
        LET tI == Ret.locals.tempoIntensity
            energy == Ret.locals.sectionEnergy
            m == Ret.locals.sectionMultiplier
        IN  /\ m = (500 + Mul(Scale - tI, 200)) + Mul(energy, tI)
            /\ tI = Scale =>
                   /\ m >= 500 /\ m <= 1500
                   /\ energy = 0 => m = 500
                   /\ energy = Scale => m = 1500
            /\ tI = 300 =>
                   /\ m >= 700 /\ m <= 1150
                   /\ energy = 0 => m = 700
                   /\ energy = Scale => m = 1150

\* ---------------------------------------------------------------------------
\* app.tsx lines 467-512 (part_000 308-353): calculateBetterBPM
\* ---------------------------------------------------------------------------

\* The two values of the drop-downs of app.tsx 533-534
BPMMethods == {"Track BPM", "Danceability, Energy and Track BPM"}

\* calculateBetterBPM taking the average whatever the setting says.
calculateBetterBPMAlwaysAverage(danceability, energy, currentBPM, fasterSongsMethod) ==
    LET normalizedBPM == DivFx(currentBPM, 100 * Scale)
        normalizedDanceability == DivFx(danceability, 100 * Scale)
        normalizedEnergy == DivFx(energy, 100 * Scale)
        danceabilityWeight ==
            IF normalizedDanceability < 500 THEN Mul(900, normalizedDanceability) ELSE 900
        energyWeight == IF normalizedEnergy < 500 THEN Mul(600, normalizedEnergy) ELSE 600
        bpmWeight == IF normalizedBPM < 800 THEN 900 ELSE 600
        weightedAverage ==
            DivFx(Mul(normalizedDanceability, danceabilityWeight)
                      + Mul(normalizedEnergy, energyWeight)
                      + Mul(normalizedBPM, bpmWeight),
                  (Scale - danceabilityWeight) + (Scale - energyWeight) + bpmWeight)
        estimate == Mul(weightedAverage, 100 * Scale)
        capped ==
            IF estimate > currentBPM THEN DivFx(estimate + currentBPM, 2 * Scale)
            ELSE estimate
    IN  [estimate |-> estimate,
         betterBPM |-> IF capped < currentBPM THEN Max(capped, 70 * Scale) ELSE capped]

\* calculateBetterBPM(danceability, energy, currentBPM); fasterSongsMethod is
\* settings.getFieldValue("raccoonwheel-webm-bpm-method-faster-songs").
\* Returns the weighted estimate (betterBPM of line 494) with the result.
calculateBetterBPM(danceability, energy, currentBPM, fasterSongsMethod) ==
    LET energyThreshold == 500
        danceabilityThreshold == 500
        maxBPM == 100 * Scale
        bpmThreshold == 800
        normalizedBPM == DivFx(currentBPM, 100 * Scale)
        normalizedDanceability == DivFx(danceability, 100 * Scale)
        normalizedEnergy == DivFx(energy, 100 * Scale)
        danceabilityWeight ==
            IF normalizedDanceability < danceabilityThreshold
            THEN Mul(900, normalizedDanceability) ELSE 900
        energyWeight ==
            IF normalizedEnergy < energyThreshold THEN Mul(600, normalizedEnergy) ELSE 600
        bpmWeight == IF normalizedBPM < bpmThreshold THEN 900 ELSE 600
        weightedAverage ==
            DivFx(Mul(normalizedDanceability, danceabilityWeight)
                      + Mul(normalizedEnergy, energyWeight)
                      + Mul(normalizedBPM, bpmWeight),
                  (Scale - danceabilityWeight) + (Scale - energyWeight) + bpmWeight)
        estimate == Mul(weightedAverage, maxBPM)
        betterBPMForFasterSongs == fasterSongsMethod # "Track BPM"
        capped ==
            IF estimate > currentBPM
            THEN (IF betterBPMForFasterSongs
                  THEN DivFx(estimate + currentBPM, 2 * Scale)
                  ELSE currentBPM)
            ELSE estimate
    IN  [estimate |-> estimate,
         betterBPM |-> IF capped < currentBPM THEN Max(capped, 70 * Scale) ELSE capped]

\* danceability and energy as getBetterBPM rounds them: whole numbers 0..100
FeatureValues == {5 * k * Scale : k \in 0..20}

\* Track tempos (BPM) on both sides of the floor 70 and of the threshold 80
CurrentBPMs ==
    {40 * Scale, 60 * Scale, 69 * Scale, 70 * Scale, 80 * Scale, 100 * Scale,
     130 * Scale, 180 * Scale}

BetterBPMInputs ==
    [danceability : FeatureValues, energy : FeatureValues, currentBPM : CurrentBPMs,
     fasterSongsMethod : BPMMethods]

\* The rate engine is not called
EngineIdle ==
    /\ audioData = None
    /\ currentProgress = 0
    /\ bpmArg = None
    /\ call = NoCall

InitBetterBPM ==
    /\ EngineIdle
    /\ FetchIdle
    /\ AppIdle
    /\ LegacyIdle
    /\ bpmInput \in {Some(i) : i \in BetterBPMInputs}
    /\ bpmResult = None

CallCalculateBetterBPM ==
    /\ bpmInput # None
    /\ bpmResult' =
           Some(calculateBetterBPM(bpmInput[1].danceability, bpmInput[1].energy,
                                   bpmInput[1].currentBPM, bpmInput[1].fasterSongsMethod))
    /\ UNCHANGED <<engineVars, fetchVars, appVars, legacyVars, bpmInput>>

NextBetterBPM == CallCalculateBetterBPM

SpecBetterBPM == InitBetterBPM /\ [][NextBetterBPM]_vars

\* calculateBetterBPM has returned with the faster-songs setting "Track BPM"
ReturnedWithTrackBPM ==
    /\ bpmResult # None
    /\ bpmInput[1].fasterSongsMethod = "Track BPM"

\* ---------------------------------------------------------------------------
\* C30.  When the "better BPM for faster songs" setting is "Track BPM",
\* calculateBetterBPM(danceability, energy, currentBPM) never returns a value
\* greater than currentBPM, for every danceability and energy in 0..100 and
\* every currentBPM > 0; and when the weighted estimate is below currentBPM
\* the result is at least 70.
\* ---------------------------------------------------------------------------
C30_NeverAboveCurrentBPM ==
    ReturnedWithTrackBPM =>
        /\ bpmResult[1].betterBPM <= bpmInput[1].currentBPM
        /\ bpmResult[1].estimate < bpmInput[1].currentBPM =>
               bpmResult[1].betterBPM >= 70 * Scale

\* C30 as the code has it: the result is never greater than currentBPM when
\* currentBPM is at least 70, and never greater than 70 when currentBPM is
\* below 70; when the weighted estimate is below currentBPM the result is at
\* least 70.
C30_NeverAboveCurrentBPMOrFloor ==
    ReturnedWithTrackBPM =>
        LET currentBPM == bpmInput[1].currentBPM
            result == bpmResult[1].betterBPM
        IN  /\ currentBPM >= 70 * Scale => result <= currentBPM
            /\ currentBPM < 70 * Scale => result <= 70 * Scale
            /\ bpmResult[1].estimate < currentBPM => result >= 70 * Scale

\* An estimate above the track's BPM, cut back to the track's BPM
C30_Witness ==
    /\ ReturnedWithTrackBPM
    /\ bpmResult[1].estimate > bpmInput[1].currentBPM
    /\ bpmResult[1].betterBPM = bpmInput[1].currentBPM

\* ---------------------------------------------------------------------------
\* app.tsx lines 189-207 (part_000 98-116): fetchAudioData
\* ---------------------------------------------------------------------------

\* The largest maxRetries handed to fetchAudioData
MaxRetriesArg == 10

\* maxRetries when the caller leaves it out, as every caller does
DefaultMaxRetries == 10

\* What the catch block of line 193 can be handed: an Error whose message
\* includes "Cannot read properties of undefined", another Error, a value
\* that is not an Error
Failures == {"ErrorUndefinedProperties", "ErrorOther", "NotAnError"}

InitFetch ==
    /\ EngineIdle
    /\ BetterBPMIdle
    /\ AppIdle
    /\ LegacyIdle
    /\ fetchPc = "idle"
    /\ fetchArg \in 0..MaxRetriesArg
    /\ fetchMaxRetries = fetchArg
    /\ fetchCalls = 0
    /\ fetchFailure = "none"
    /\ fetchReturn = "pending"

\* fetchAudioData(retryDelay, maxRetries) up to the await of line 191
CallFetchAudioData ==
    /\ fetchPc = "idle"
    /\ fetchPc' = "awaitGetAudioData"
    /\ fetchCalls' = fetchCalls + 1
    /\ UNCHANGED <<engineVars, betterBPMVars, appVars, legacyVars>>
    /\ UNCHANGED <<fetchArg, fetchMaxRetries, fetchFailure, fetchReturn>>

\* Line 191-192: the promise of Spicetify.getAudioData is fulfilled
GetAudioDataFulfilled ==
    /\ fetchPc = "awaitGetAudioData"
    /\ fetchPc' = "returned"
    /\ fetchReturn' = "audioData"
    /\ fetchFailure' = "none"
    /\ UNCHANGED <<engineVars, betterBPMVars, appVars, legacyVars>>
    /\ UNCHANGED <<fetchArg, fetchMaxRetries, fetchCalls>>

\* Lines 193-205: the promise is rejected (or the call throws) with `error`
GetAudioDataRejected ==
    /\ fetchPc = "awaitGetAudioData"
    /\ \E error \in Failures :
           /\ fetchFailure' = error
           /\ IF error = "ErrorUndefinedProperties" /\ fetchMaxRetries > 0
              THEN fetchPc' = "awaitRetryDelay" /\ UNCHANGED fetchReturn
              ELSE fetchPc' = "returned" /\ fetchReturn' = "null"
    /\ UNCHANGED <<engineVars, betterBPMVars, appVars, legacyVars>>
    /\ UNCHANGED <<fetchArg, fetchMaxRetries, fetchCalls>>

\* The retry calling fetchAudioData with the same maxRetries.
RetryDelayElapsedSameBudget ==
    /\ fetchPc = "awaitRetryDelay"
    /\ fetchPc' = "awaitGetAudioData"
    /\ fetchCalls' = fetchCalls + 1
    /\ UNCHANGED <<engineVars, betterBPMVars, appVars, legacyVars>>
    /\ UNCHANGED <<fetchArg, fetchMaxRetries, fetchFailure, fetchReturn>>

\* Lines 199-200: the timer of retryDelay fires, and fetchAudioData(retryDelay,
\* maxRetries - 1) runs up to its await of line 191; what it returns is what
\* the outer call returns
RetryDelayElapsed ==
    /\ fetchPc = "awaitRetryDelay"
    /\ fetchMaxRetries' = fetchMaxRetries - 1
    /\ fetchPc' = "awaitGetAudioData"
    /\ fetchCalls' = fetchCalls + 1
    /\ UNCHANGED <<engineVars, betterBPMVars, appVars, legacyVars>>
    /\ UNCHANGED <<fetchArg, fetchFailure, fetchReturn>>

NextFetch ==
    \/ CallFetchAudioData
    \/ GetAudioDataFulfilled
    \/ GetAudioDataRejected
    \/ RetryDelayElapsed

SpecFetch == InitFetch /\ [][NextFetch]_vars

\* Every promise of Spicetify.getAudioData settles and every timer fires
FairSpecFetch ==
    /\ SpecFetch
    /\ WF_vars(CallFetchAudioData)
    /\ WF_vars(GetAudioDataFulfilled \/ GetAudioDataRejected)
    /\ WF_vars(RetryDelayElapsed)

\* ---------------------------------------------------------------------------
\* C23.  fetchAudioData(retryDelay, maxRetries) calls Spicetify.getAudioData
\* at most maxRetries + 1 times (11 by default) and always terminates; it
\* retries, after waiting retryDelay, only when the failure is an Error whose
\* message contains "Cannot read properties of undefined" and retries
\* remain; on any other failure or when retries are exhausted it returns
\* null, and on the first success it returns that data without further
\* calls.
\* ---------------------------------------------------------------------------
C23_BoundedRetry ==
    /\ [](/\ fetchCalls <= fetchArg + 1
          /\ fetchArg = DefaultMaxRetries => fetchCalls <= 11
          /\ fetchPc = "awaitRetryDelay" =>
                 fetchFailure = "ErrorUndefinedProperties" /\ fetchCalls <= fetchArg
          /\ (fetchPc = "returned" /\ fetchFailure = "none") =>
                 fetchReturn = "audioData"
          /\ (fetchPc = "returned" /\ fetchFailure # "none") =>
                 /\ fetchReturn = "null"
                 /\ fetchFailure # "ErrorUndefinedProperties"
                        \/ fetchCalls = fetchArg + 1)
    /\ [][/\ fetchCalls' > fetchCalls /\ fetchCalls > 0 => fetchPc = "awaitRetryDelay"
          /\ fetchPc = "awaitGetAudioData" /\ fetchPc' = "returned" =>
                 \/ fetchReturn' = "audioData"
                 \/ fetchFailure' # "ErrorUndefinedProperties"
                 \/ fetchCalls = fetchArg + 1
          /\ fetchPc = "returned" => UNCHANGED <<fetchCalls, fetchReturn>>]_vars
    /\ <>(fetchPc = "returned")

\* The default budget used up: the eleventh call failed like the ten before it
C23_Witness ==
    /\ fetchArg = DefaultMaxRetries
    /\ fetchCalls = 11
    /\ fetchPc = "returned"
    /\ fetchFailure = "ErrorUndefinedProperties"
    /\ fetchReturn = "null"

\* ---------------------------------------------------------------------------
\* app.tsx: the driver (lines 189-437 and 521-617)
\* ---------------------------------------------------------------------------

\* Songs the player goes through
MaxSongs == 3

\* Calls of createWebMVideo
MaxCreateCalls == 2

\* The analysis Spicetify.getAudioData hands over for each song: regular
\* beats from 0; two beats, the first at 0.5 s, the second with a confidence
\* out of the range of the API; a track and an empty beat array
SongAnalysis(s) ==
    IF s % 3 = 1
    THEN Snapshot(Some([tempo |-> 120 * Scale, loudness |-> (0 - 8) * Scale]),
                  Some(RegularBeats(500, 900)), None, None)
    ELSE IF s % 3 = 2
    THEN Snapshot(Some([tempo |-> 60 * Scale, loudness |-> (0 - 8) * Scale]),
                  Some(<<[start |-> 500, confidence |-> 200],
                         [start |-> 1500, confidence |-> 0 - 500]>>), None, None)
    ELSE Snapshot(Some([tempo |-> 100 * Scale, loudness |-> (0 - 8) * Scale]),
                  Some(<<>>), None, None)

\* globalAudioData as the AudioData | null the functions read
AudioDataOf(g) == IF g = None THEN None ELSE SongAnalysis(g[1])

\* Spicetify.Player.getProgress(), in milliseconds
ProgressValues == {0, 7000}

\* settings.getFieldValue("raccoonwheel-webm-bpm"): left empty
VideoBpmSetting == None

\* What the audio-features request of getBetterBPM gives: it fails (or the
\* player has no item), or danceability and energy as rounded percentages
FeatureOutcomes == {None, Some([danceability |-> 60 * Scale, energy |-> 80 * Scale])}

\* app.tsx 446-461; the faster-songs setting is at its default (line 534)
getBetterBPM(currentBPM, features) ==
    IF features = None THEN currentBPM
    ELSE calculateBetterBPM(features[1].danceability, features[1].energy, currentBPM,
                            "Danceability, Energy and Track BPM").betterBPM

\* app.tsx 154-184
getPlaybackRate(ad, bpmMethod, features) ==
    LET videoDefaultBPM == defaultBPM(VideoBpmSetting)
    IN  IF ad # None /\ ad[1].track # None
        THEN LET trackBPM == ad[1].track[1].tempo
                 bpmToUse ==
                     IF bpmMethod # "Track BPM" THEN getBetterBPM(trackBPM, features)
                     ELSE trackBPM
             IN  IF bpmToUse # 0 THEN DivFx(bpmToUse, videoDefaultBPM) ELSE Scale
        ELSE Scale

\* getPlaybackRate reaches the await of line 166
AwaitsBetterBPM(ad, bpmMethod) ==
    /\ ad # None
    /\ ad[1].track # None
    /\ bpmMethod # "Track BPM"

\* The rate engine of app.tsx 70-149 on a position and globalAudioData
DynamicRate(progress, g) ==
    calculateDynamicPlaybackRateApp(progress, AudioDataOf(g), VideoBpmSetting).rate

\* document.getElementById(VIDEO_ELEMENT_ID): the first such element
getElementById(doc) == IF doc = <<>> THEN None ELSE Some(Head(doc))

\* mediaElement instanceof HTMLVideoElement
IsVideo(els, e) == els[e].tag = "video"

\* mediaElement.playbackRate = r, then play() (the `if (paused)` of lines
\* 230 and 241 changes nothing: play() on a playing element does nothing)
PlayAt(els, e, r) == [els EXCEPT ![e] = [@ EXCEPT !.playbackRate = r, !.paused = FALSE]]

\* updateVideoSpeed pausing the video while the player is not playing.
updateVideoSpeedPausing(els, doc, playing, progress, g) ==
    LET mediaElement == getElementById(doc)
    IN  IF mediaElement = None \/ ~IsVideo(els, mediaElement[1]) THEN els
        ELSE IF ~playing
        THEN [els EXCEPT ![mediaElement[1]] = [@ EXCEPT !.playbackRate = 0, !.paused = TRUE]]
        ELSE PlayAt(els, mediaElement[1], DynamicRate(progress, g))

\* app.tsx 216-244: updateVideoSpeed, as the elements it leaves
updateVideoSpeed(els, doc, playing, progress, g) ==
    LET mediaElement == getElementById(doc)
    IN  IF mediaElement = None \/ ~IsVideo(els, mediaElement[1]) THEN els
        ELSE IF ~playing THEN PlayAt(els, mediaElement[1], 100)
        ELSE PlayAt(els, mediaElement[1], DynamicRate(progress, g))

\* globalAudioData?.beats has a beat that starts after the position
HasUpcomingBeat(g, progress) ==
    LET ad == AudioDataOf(g)
    IN  /\ ad # None
        /\ ad[1].beats # None
        /\ \E i \in DOMAIN ad[1].beats[1] : ad[1].beats[1][i].start > toSeconds(progress)

\* app.tsx 249-286: syncTiming when the element is there, as the elements
\* it leaves; lines 264-267 are in SyncTimingSchedules
syncTimingElements(els, doc, playing, progress, g) ==
    LET mediaElement == getElementById(doc)
    IN  IF mediaElement = None \/ ~IsVideo(els, mediaElement[1]) THEN els
        ELSE IF ~playing THEN PlayAt(els, mediaElement[1], 100)
        ELSE IF HasUpcomingBeat(g, progress)
        THEN [els EXCEPT ![mediaElement[1]] =
                  [@ EXCEPT !.playbackRate = DynamicRate(progress, g)]]
        ELSE PlayAt(els, mediaElement[1], DynamicRate(progress, g))

\* app.tsx 264-267: syncTiming registers the timer that restarts the video
\* on the upcoming beat
SyncTimingSchedules(els, doc, playing, progress, g) ==
    LET mediaElement == getElementById(doc)
    IN  /\ mediaElement # None
        /\ IsVideo(els, mediaElement[1])
        /\ playing
        /\ HasUpcomingBeat(g, progress)

\* window.setInterval: the id after the one it returned last, which is the
\* one main keeps
NewIntervalId(last) == IF last = None THEN 1 ELSE last[1] + 1

\* startSpeedUpdateLoop registering without cancelling.
startSpeedUpdateLoopKeeping ==
    /\ activeIntervals' = activeIntervals \cup {NewIntervalId(speedUpdateInterval)}
    /\ speedUpdateInterval' = Some(NewIntervalId(speedUpdateInterval))

\* app.tsx 546-554: startSpeedUpdateLoop
startSpeedUpdateLoop ==
    LET cleared ==
            IF speedUpdateInterval # None
            THEN activeIntervals \ {speedUpdateInterval[1]}
            ELSE activeIntervals
    IN  /\ activeIntervals' = cleared \cup {NewIntervalId(speedUpdateInterval)}
        /\ speedUpdateInterval' = Some(NewIntervalId(speedUpdateInterval))

\* An execution of createWebMVideo or of the songchange handler: where it
\* stands, the element it holds, the song its fetch started on, and the
\* audio data its call of getPlaybackRate was handed
Execution(pc, el, fetchFor) == [pc |-> pc, el |-> el, fetchFor |-> fetchFor, rateFor |-> None]

\* createWebMVideo without its guard.
createWebMVideoUnguarded ==
    /\ createCalls' = createCalls + 1
    /\ isCreatingVideo' = TRUE
    /\ creations' = Append(creations, Execution("waitForElement", 0, 0))

\* app.tsx 322-355: createWebMVideo up to its first await
createWebMVideo ==
    /\ createCalls' = createCalls + 1
    /\ IF isCreatingVideo
       THEN UNCHANGED <<isCreatingVideo, creations>>
       ELSE /\ isCreatingVideo' = TRUE
            /\ creations' = Append(creations, Execution("waitForElement", 0, 0))

\* No call of createWebMVideo
NoCreateCall == UNCHANGED <<createCalls, isCreatingVideo, creations>>

\* The state outside the driver of app.tsx
outsideApp == <<engineVars, betterBPMVars, fetchVars, legacyVars>>

\* The state main() leaves (app.tsx 521-556): createWebMVideo is at its first
\* await and the speed-update interval is registered
InitApp ==
    /\ EngineIdle
    /\ BetterBPMIdle
    /\ FetchIdle
    /\ LegacyIdle
    /\ isPlaying \in BOOLEAN
    /\ playerSong = 1
    /\ lastProgress = 0
    /\ globalAudioData = None
    /\ isCreatingVideo = TRUE
    /\ elements = <<>>
    /\ document = <<>>
    /\ createCalls = 1
    /\ creations = <<Execution("waitForElement", 0, 0)>>
    /\ songChanges = <<>>
    /\ activeIntervals = {1}
    /\ speedUpdateInterval = Some(1)
    /\ resyncTimers = {}

\* Lines 355-394: waitForElement returns the target; the element is created
\* (a video, or an img when the URL ends in .gif) and fetchAudioData is called
WaitForElementReturns(i) ==
    /\ creations[i].pc = "waitForElement"
    /\ \E tag \in {"video", "img"} :
           elements' = Append(elements, [tag |-> tag, playbackRate |-> Scale, paused |-> TRUE])
    /\ creations' =
           [creations EXCEPT ![i] = Execution("fetchAudioData", Len(elements) + 1, playerSong)]
    /\ UNCHANGED <<outsideApp, isPlaying, playerSong, lastProgress, globalAudioData,
                   isCreatingVideo, document, createCalls, songChanges, activeIntervals,
                   speedUpdateInterval, resyncTimers>>

\* Lines 312 and 432-436: waitForElement gives up after maxAttempts attempts
WaitForElementThrows(i) ==
    /\ creations[i].pc = "waitForElement"
    /\ creations' = Remove(creations, i)
    /\ isCreatingVideo' = FALSE
    /\ UNCHANGED <<outsideApp, isPlaying, playerSong, lastProgress, globalAudioData,
                   elements, document, createCalls, songChanges, activeIntervals,
                   speedUpdateInterval, resyncTimers>>

\* An element that is out of the document and that no execution of
\* createWebMVideo holds never comes back into the document, and nothing
\* reads what the timers and handlers that still hold it write to it: its
\* rate, its paused flag and the timers that will play it are followed no
\* further
Followed(els, doc, crs) ==
    [e \in DOMAIN els |->
        IF (\E n \in DOMAIN doc : doc[n] = e) \/ (\E i \in DOMAIN crs : crs[i].el = e)
        THEN els[e]
        ELSE [els[e] EXCEPT !.playbackRate = Scale, !.paused = TRUE]]

\* The timers that hold an element that is followed
FollowedTimers(timers, doc, crs) ==
    {e \in timers :
        (\E n \in DOMAIN doc : doc[n] = e) \/ (\E i \in DOMAIN crs : crs[i].el = e)}

\* createWebMVideo inserting without removing the element that is there.
insertMediaElementKeeping(doc, el, inserted) == IF inserted THEN <<el>> \o doc ELSE doc

\* Lines 408-421: the element with the id is removed, then the new one is
\* inserted, unless the position is "Bottom" and the target has no child
insertMediaElement(doc, el, inserted) ==
    LET removed == IF doc = <<>> THEN <<>> ELSE Tail(doc)
    IN  IF inserted THEN <<el>> \o removed ELSE removed

\* Lines 398-436, from the rate getPlaybackRate returned to the finally block
CreationEnds(i, initialRate) ==
    LET el == creations[i].el
        els == IF IsVideo(elements, el)
               THEN [elements EXCEPT
                       ![el] = [@ EXCEPT !.playbackRate = initialRate, !.paused = ~isPlaying]]
               ELSE elements
    IN  /\ \E inserted \in BOOLEAN :
               /\ document' = insertMediaElement(document, el, inserted)
               /\ elements' =
                      Followed(els, insertMediaElement(document, el, inserted),
                               Remove(creations, i))
               /\ resyncTimers' =
                      FollowedTimers(resyncTimers,
                                     insertMediaElement(document, el, inserted),
                                     Remove(creations, i))
        /\ creations' = Remove(creations, i)
        /\ isCreatingVideo' = FALSE

\* Lines 394-399: fetchAudioData returns the analysis of the song it was
\* called on, or null; getPlaybackRate is called for a video
CreationFetchReturns(i) ==
    /\ creations[i].pc = "fetchAudioData"
    /\ \E ok \in BOOLEAN, bpmMethod \in BPMMethods :
           LET g == IF ok THEN Some(creations[i].fetchFor) ELSE None
           IN  /\ globalAudioData' = g
               /\ IF /\ IsVideo(elements, creations[i].el)
                     /\ AwaitsBetterBPM(AudioDataOf(g), bpmMethod)
                  THEN /\ creations' =
                              [creations EXCEPT
                                 ![i] = [@ EXCEPT !.pc = "getPlaybackRate", !.rateFor = g]]
                       /\ UNCHANGED <<elements, document, isCreatingVideo, resyncTimers>>
                  ELSE CreationEnds(i, getPlaybackRate(AudioDataOf(g), bpmMethod, None))
    /\ UNCHANGED <<outsideApp, isPlaying, playerSong, lastProgress, createCalls,
                   songChanges, activeIntervals, speedUpdateInterval>>

\* Lines 399-436: the audio-features request of getBetterBPM settles
CreationBetterBPMReturns(i) ==
    /\ creations[i].pc = "getPlaybackRate"
    /\ \E features \in FeatureOutcomes :
           CreationEnds(i, getPlaybackRate(AudioDataOf(creations[i].rateFor),
                                           "Danceability, Energy and Track BPM", features))
    /\ UNCHANGED <<outsideApp, isPlaying, playerSong, lastProgress, globalAudioData,
                   createCalls, songChanges, activeIntervals, speedUpdateInterval>>

\* The settings button of line 536
ReloadButton ==
    /\ createCalls < MaxCreateCalls
    /\ createWebMVideo
    /\ UNCHANGED <<outsideApp, isPlaying, playerSong, lastProgress, globalAudioData,
                   elements, document, songChanges, activeIntervals, speedUpdateInterval,
                   resyncTimers>>

\* The host page re-renders and drops the element (what lines 288-291 and
\* 612-615 recover from)
HostRemovesElement ==
    /\ document # <<>>
    /\ document' = <<>>
    /\ elements' = Followed(elements, <<>>, creations)
    /\ resyncTimers' = FollowedTimers(resyncTimers, <<>>, creations)
    /\ UNCHANGED <<outsideApp, isPlaying, playerSong, lastProgress, globalAudioData,
                   isCreatingVideo, createCalls, creations, songChanges,
                   activeIntervals, speedUpdateInterval>>

\* Lines 551-553: a registered interval timer fires
Tick(id) ==
    /\ id \in activeIntervals
    /\ \E progress \in ProgressValues :
           /\ elements' =
                  updateVideoSpeed(elements, document, isPlaying, progress, globalAudioData)
    /\ UNCHANGED <<outsideApp, isPlaying, playerSong, lastProgress, globalAudioData,
                   isCreatingVideo, document, createCalls, creations, songChanges,
                   activeIntervals, speedUpdateInterval, resyncTimers>>

\* Lines 249-293: syncTiming(startTime, progress) with the player in state
\* `playing`, but for the elements it leaves (syncTimingElements)
SyncTiming(playing, progress) ==
    /\ resyncTimers' =
           IF SyncTimingSchedules(elements, document, playing, progress, globalAudioData)
           THEN resyncTimers \cup {Head(document)}
           ELSE resyncTimers
    /\ IF document = <<>> THEN createWebMVideo ELSE NoCreateCall

\* Lines 558-564: the player starts or stops, and the onplaypause handler runs
OnPlayPause ==
    /\ document = <<>> => createCalls < MaxCreateCalls
    /\ isPlaying' = ~isPlaying
    /\ \E progress \in ProgressValues :
           LET els == syncTimingElements(elements, document, ~isPlaying, progress,
                                         globalAudioData)
           IN  /\ lastProgress' = progress
               /\ SyncTiming(~isPlaying, progress)
               /\ elements' =
                      updateVideoSpeed(els, document, ~isPlaying, progress, globalAudioData)
    /\ UNCHANGED <<outsideApp, playerSong, globalAudioData, document, songChanges,
                   activeIntervals, speedUpdateInterval>>

\* Lines 566-577: the onprogress handler
OnProgress ==
    /\ document = <<>> => createCalls < MaxCreateCalls
    /\ \E progress \in ProgressValues :
           /\ lastProgress' = progress
           /\ IF Abs(progress - lastProgress) >= 500
              THEN /\ SyncTiming(isPlaying, progress)
                   /\ elements' =
                          syncTimingElements(elements, document, isPlaying, progress,
                                             globalAudioData)
              ELSE /\ NoCreateCall
                   /\ UNCHANGED <<elements, resyncTimers>>
    /\ UNCHANGED <<outsideApp, isPlaying, playerSong, globalAudioData, document,
                   songChanges, activeIntervals, speedUpdateInterval>>

\* Lines 264-267 and 599-602: a timer set for a beat fires and plays the element
ResyncTimerFires(e) ==
    /\ e \in resyncTimers
    /\ resyncTimers' = resyncTimers \ {e}
    /\ elements' = Followed([elements EXCEPT ![e].paused = FALSE], document, creations)
    /\ UNCHANGED <<outsideApp, isPlaying, playerSong, lastProgress, globalAudioData,
                   isCreatingVideo, document, createCalls, creations, songChanges,
                   activeIntervals, speedUpdateInterval>>

\* Lines 579-585 and 612-615: the player moves to the next song and the
\* songchange handler runs up to its await
SongChange ==
    /\ playerSong < MaxSongs
    /\ document = <<>> => createCalls < MaxCreateCalls
    /\ playerSong' = playerSong + 1
    /\ \E progress \in ProgressValues : lastProgress' = progress
    /\ IF document # <<>>
       THEN /\ songChanges' =
                   Append(songChanges,
                          Execution("fetchAudioData", Head(document), playerSong + 1))
            /\ NoCreateCall
       ELSE /\ createWebMVideo
            /\ UNCHANGED songChanges
    /\ UNCHANGED <<outsideApp, isPlaying, globalAudioData, elements, document,
                   activeIntervals, speedUpdateInterval, resyncTimers>>

\* globalAudioData?.beats && globalAudioData.beats.length > 0
HasBeats(g) == ~noBeats(AudioDataOf(g))

\* Lines 585-611: fetchAudioData returns to the songchange handler
SongChangeFetchReturns(j) ==
    /\ songChanges[j].pc = "fetchAudioData"
    /\ \E ok \in BOOLEAN, bpmMethod \in BPMMethods :
           LET g == IF ok THEN Some(songChanges[j].fetchFor) ELSE None
               el == songChanges[j].el
               done == Remove(songChanges, j)
           IN  /\ globalAudioData' = g
               /\ IF ~IsVideo(elements, el)
                  THEN /\ startSpeedUpdateLoop
                       /\ songChanges' = done
                       /\ UNCHANGED <<elements, resyncTimers>>
                  ELSE IF HasBeats(g)
                  THEN /\ elements' =
                              Followed([elements EXCEPT
                                          ![el].playbackRate = DynamicRate(0, g)],
                                       document, creations)
                       /\ resyncTimers' =
                              FollowedTimers(resyncTimers \cup {el}, document, creations)
                       /\ startSpeedUpdateLoop
                       /\ songChanges' = done
                  ELSE IF AwaitsBetterBPM(AudioDataOf(g), bpmMethod)
                  THEN /\ songChanges' =
                              [songChanges EXCEPT
                                 ![j] = [@ EXCEPT !.pc = "getPlaybackRate", !.rateFor = g]]
                       /\ UNCHANGED <<elements, resyncTimers, activeIntervals,
                                      speedUpdateInterval>>
                  ELSE /\ elements' =
                              Followed(PlayAt(elements, el,
                                              getPlaybackRate(AudioDataOf(g), bpmMethod,
                                                              None)),
                                       document, creations)
                       /\ startSpeedUpdateLoop
                       /\ songChanges' = done
                       /\ UNCHANGED resyncTimers
    /\ UNCHANGED <<outsideApp, isPlaying, playerSong, lastProgress, isCreatingVideo,
                   document, createCalls, creations>>

\* Lines 604-611: the audio-features request of getBetterBPM settles
SongChangeBetterBPMReturns(j) ==
    /\ songChanges[j].pc = "getPlaybackRate"
    /\ \E features \in FeatureOutcomes :
           elements' =
               Followed(PlayAt(elements, songChanges[j].el,
                               getPlaybackRate(AudioDataOf(songChanges[j].rateFor),
                                               "Danceability, Energy and Track BPM",
                                               features)),
                        document, creations)
    /\ startSpeedUpdateLoop
    /\ songChanges' = Remove(songChanges, j)
    /\ UNCHANGED <<outsideApp, isPlaying, playerSong, lastProgress, globalAudioData,
                   isCreatingVideo, document, createCalls, creations, resyncTimers>>

NextApp ==
    \/ \E i \in DOMAIN creations : WaitForElementReturns(i)
    \/ \E i \in DOMAIN creations : WaitForElementThrows(i)
    \/ \E i \in DOMAIN creations : CreationFetchReturns(i)
    \/ \E i \in DOMAIN creations : CreationBetterBPMReturns(i)
    \/ \E j \in DOMAIN songChanges : SongChangeFetchReturns(j)
    \/ \E j \in DOMAIN songChanges : SongChangeBetterBPMReturns(j)
    \/ \E id \in activeIntervals : Tick(id)
    \/ \E e \in resyncTimers : ResyncTimerFires(e)
    \/ ReloadButton
    \/ HostRemovesElement
    \/ OnPlayPause
    \/ OnProgress
    \/ SongChange

SpecApp == InitApp /\ [][NextApp]_vars

\* ---------------------------------------------------------------------------
\* C22.  After main() has started and after any sequence of songchange,
\* onplaypause and onprogress events, at most one speed-update interval
\* timer is active: every startSpeedUpdateLoop call cancels the previously
\* registered interval before registering a new one, so the registered
\* timer is the one main keeps in speedUpdateInterval.
\* ---------------------------------------------------------------------------
C22_SingleInterval ==
    /\ Cardinality(activeIntervals) <= 1
    /\ speedUpdateInterval # None => activeIntervals = {speedUpdateInterval[1]}

\* Two songchange handlers have restarted the loop main started
C22_Witness ==
    /\ playerSong = 3
    /\ speedUpdateInterval = Some(3)
    /\ activeIntervals = {3}

\* updateVideoSpeed finds a video and the player is playing: it calls the
\* rate engine on globalAudioData
TickCallsEngine ==
    /\ isPlaying
    /\ getElementById(document) # None
    /\ IsVideo(elements, Head(document))

\* ---------------------------------------------------------------------------
\* C24.  Whenever updateVideoSpeed or syncTiming computes a rate from
\* globalAudioData, that snapshot is the one fetched for the song currently
\* playing: no tick between a song change and the completion of its fetch
\* uses the previous song's snapshot with the new song's position, and after
\* several songchange events whose fetches complete in any order,
\* globalAudioData ends as the result of the fetch started by the most
\* recent song change.
\* ---------------------------------------------------------------------------
C24_SnapshotOfCurrentSong ==
    /\ [][((\E id \in activeIntervals : Tick(id)) /\ TickCallsEngine
               /\ globalAudioData # None)
              => globalAudioData[1] = playerSong]_vars
    /\ []((songChanges = <<>> /\ creations = <<>> /\ globalAudioData # None)
              => globalAudioData[1] = playerSong)

\* createWebMVideo with the callers that do not wait for a fetch of their
\* own: the settings button and, when the element is missing, syncTiming
NextCreate ==
    \/ \E i \in DOMAIN creations : WaitForElementReturns(i)
    \/ \E i \in DOMAIN creations : WaitForElementThrows(i)
    \/ \E i \in DOMAIN creations : CreationFetchReturns(i)
    \/ \E i \in DOMAIN creations : CreationBetterBPMReturns(i)
    \/ ReloadButton
    \/ HostRemovesElement
    \/ OnPlayPause

SpecCreate == InitApp /\ [][NextCreate]_vars

\* waitForElement ends after at most maxAttempts timers of 100 ms, and
\* fetchAudioData and the audio-features request settle
FairSpecCreate ==
    /\ SpecCreate
    /\ WF_vars(\E i \in DOMAIN creations :
                   WaitForElementReturns(i) \/ WaitForElementThrows(i))
    /\ WF_vars(\E i \in DOMAIN creations : CreationFetchReturns(i))
    /\ WF_vars(\E i \in DOMAIN creations : CreationBetterBPMReturns(i))

\* ---------------------------------------------------------------------------
\* C25.  At any moment at most one execution of createWebMVideo is between
\* the isCreatingVideo guard and its finally block, and the flag is set
\* exactly while one is; a call made while another is in progress returns
\* immediately without touching the DOM or globalAudioData; and
\* isCreatingVideo is false again once the running execution ends, whether
\* it completed or failed, so a later call is never blocked forever.
\* ---------------------------------------------------------------------------
C25_MutualExclusion ==
    /\ [](Len(creations) <= 1 /\ (isCreatingVideo <=> creations # <<>>))
    /\ [][(isCreatingVideo /\ createCalls' > createCalls)
              => UNCHANGED <<document, elements, globalAudioData, creations,
                             isCreatingVideo>>]_vars
    /\ isCreatingVideo ~> ~isCreatingVideo

\* Two calls and one element: one call returned at the guard or failed, the
\* other inserted its element, and the flag is false again
C25_Witness ==
    /\ createCalls = 2
    /\ Len(elements) = 1
    /\ document = <<1>>
    /\ creations = <<>>
    /\ ~isCreatingVideo

\* ---------------------------------------------------------------------------
\* C26.  After any sequence of createWebMVideo executions the document
\* holds at most one element with id "raccoonwheel-webm": an execution
\* removes the element that is there before it inserts its own.
\* ---------------------------------------------------------------------------
C26_NoDuplicateElement ==
    /\ Len(document) <= 1
    /\ \A n \in DOMAIN document : document[n] \in DOMAIN elements

\* A second execution has put its element in the document
C26_Witness ==
    /\ Len(elements) = 2
    /\ document = <<2>>
    /\ creations = <<>>

\* Every beat confidence of the snapshot is in [0, 1], as the API has them
UnitConfidences(g) ==
    LET ad == AudioDataOf(g)
    IN  noBeats(ad)
            \/ \A i \in DOMAIN ad[1].beats[1] :
                   /\ ad[1].beats[1][i].confidence >= 0
                   /\ ad[1].beats[1][i].confidence <= Scale

\* What a step that ends with updateVideoSpeed, the player being in state
\* `playing`, has done to the elements
AfterUpdateVideoSpeed(playing) ==
    LET mediaElement == getElementById(document)
    IN  IF mediaElement = None \/ ~IsVideo(elements, mediaElement[1])
        THEN elements' = elements
        ELSE LET e == mediaElement[1]
                 rate == elements'[e].playbackRate
             IN  /\ ~elements'[e].paused
                 /\ \A o \in DOMAIN elements \ {e} : elements'[o] = elements[o]
                 /\ rate > 0 \/ ~UnitConfidences(globalAudioData)
                 /\ IF ~playing THEN rate = 100
                    ELSE /\ \E progress \in ProgressValues :
                                rate = DynamicRate(progress, globalAudioData)
                         /\ UnitConfidences(globalAudioData) =>
                                rate = Scale \/ rate >= 300

\* ---------------------------------------------------------------------------
\* C28.  Every playbackRate updateVideoSpeed assigns is strictly positive:
\* it is exactly 0.1 on every tick while the player is not playing (the
\* engine is not called and the video is kept playing), and otherwise the
\* engine's result, which is 1 or at least 0.3 for confidences in [0, 1];
\* if the element is missing or is not a video, updateVideoSpeed changes
\* nothing.
\* ---------------------------------------------------------------------------
C28_PositiveRate ==
    [][/\ (\E id \in activeIntervals : Tick(id)) =>
              /\ AfterUpdateVideoSpeed(isPlaying)
              /\ UNCHANGED <<document, globalAudioData, isPlaying, resyncTimers,
                             creations, songChanges, activeIntervals>>
       /\ OnPlayPause => AfterUpdateVideoSpeed(isPlaying')]_vars

\* The player is not playing and the video runs at 0.1
C28_Witness ==
    /\ ~isPlaying
    /\ document # <<>>
    /\ IsVideo(elements, Head(document))
    /\ elements[Head(document)].playbackRate = 100
    /\ ~elements[Head(document)].paused
    /\ UnitConfidences(globalAudioData)

\* ---------------------------------------------------------------------------
\* part_000: the BPM-only driver (lines 125-159 and 382-435)
\* ---------------------------------------------------------------------------

\* Pending timers that play the element
MaxTimers == 2

\* The state outside the driver of part_000
outsideLegacy == <<engineVars, betterBPMVars, fetchVars, appVars>>

\* The state createWebMVideo leaves (part_000 188-278): the element is in
\* the document, a video plays if and only if the player does
InitLegacy ==
    /\ EngineIdle
    /\ BetterBPMIdle
    /\ FetchIdle
    /\ AppIdle
    /\ legacyIsPlaying \in BOOLEAN
    /\ legacySong = 1
    /\ legacyLastProgress = 0
    /\ legacyGlobalAudioData \in {None, Some(1)}
    /\ legacyElement \in {"video", "img"}
    /\ legacyPaused = IF legacyElement = "video" THEN ~legacyIsPlaying ELSE TRUE
    /\ \E bpmMethod \in BPMMethods, features \in FeatureOutcomes :
           legacyPlaybackRate =
               IF legacyElement = "video"
               THEN getPlaybackRate(AudioDataOf(legacyGlobalAudioData), bpmMethod, features)
               ELSE Scale
    /\ legacyTimers = 0
    /\ legacySongChanges = <<>>
    /\ legacyPauseHandled = FALSE

\* globalAudioData?.beats
LegacyBeatsKnown ==
    /\ AudioDataOf(legacyGlobalAudioData) # None
    /\ AudioDataOf(legacyGlobalAudioData)[1].beats # None

\* part_000 125-154: syncTiming(startTime, progress) with the player in state
\* `playing`; the element is in the document
LegacySyncTiming(playing, progress) ==
    IF legacyElement # "video"
    THEN UNCHANGED <<legacyPaused, legacyTimers>>
    ELSE IF ~playing
    THEN legacyPaused' = TRUE /\ UNCHANGED legacyTimers
    ELSE IF LegacyBeatsKnown /\ HasUpcomingBeat(legacyGlobalAudioData, progress)
    THEN legacyTimers' = legacyTimers + 1 /\ UNCHANGED legacyPaused
    ELSE legacyPaused' = FALSE /\ UNCHANGED legacyTimers

\* part_000 384-389: the player starts or stops and the onplaypause handler runs
LegacyOnPlayPause ==
    /\ legacyTimers < MaxTimers
    /\ legacyIsPlaying' = ~legacyIsPlaying
    /\ legacyPauseHandled' = legacyIsPlaying
    /\ \E progress \in ProgressValues :
           /\ legacyLastProgress' = progress
           /\ LegacySyncTiming(~legacyIsPlaying, progress)
    /\ UNCHANGED <<outsideLegacy, legacySong, legacyGlobalAudioData, legacyElement,
                   legacyPlaybackRate, legacySongChanges>>

\* part_000 391-400: the onprogress handler
LegacyOnProgress ==
    /\ legacyTimers < MaxTimers
    /\ \E progress \in ProgressValues :
           /\ legacyLastProgress' = progress
           /\ IF Abs(progress - legacyLastProgress) >= 500
              THEN LegacySyncTiming(legacyIsPlaying, progress)
              ELSE UNCHANGED <<legacyPaused, legacyTimers>>
    /\ UNCHANGED <<outsideLegacy, legacyIsPlaying, legacySong, legacyGlobalAudioData,
                   legacyElement, legacyPlaybackRate, legacySongChanges,
                   legacyPauseHandled>>

\* part_000 138-141 and 420-423: a timer set for a beat fires
LegacyTimerFires ==
    /\ legacyTimers > 0
    /\ legacyTimers' = legacyTimers - 1
    /\ legacyPaused' = FALSE
    /\ UNCHANGED <<outsideLegacy, legacyIsPlaying, legacySong, legacyLastProgress,
                   legacyGlobalAudioData, legacyElement, legacyPlaybackRate,
                   legacySongChanges, legacyPauseHandled>>

\* part_000 402-408: the player moves to the next song and the songchange
\* handler runs up to its await
LegacySongChange ==
    /\ legacySong < MaxSongs
    /\ legacySong' = legacySong + 1
    /\ \E progress \in ProgressValues : legacyLastProgress' = progress
    /\ legacySongChanges' =
           Append(legacySongChanges, Execution("fetchAudioData", 1, legacySong + 1))
    /\ UNCHANGED <<outsideLegacy, legacyIsPlaying, legacyGlobalAudioData, legacyElement,
                   legacyPaused, legacyPlaybackRate, legacyTimers, legacyPauseHandled>>

\* part_000 415-428: from the rate getPlaybackRate returned to the end of
\* the songchange handler, which fetched g
LegacySongChangeEnds(j, g, rate) ==
    /\ legacyPlaybackRate' = rate
    /\ IF HasBeats(g)
       THEN legacyTimers' = legacyTimers + 1 /\ UNCHANGED legacyPaused
       ELSE legacyPaused' = FALSE /\ UNCHANGED legacyTimers
    /\ legacySongChanges' = Remove(legacySongChanges, j)

\* part_000 408-415/425: fetchAudioData returns to the songchange handler
LegacyFetchReturns(j) ==
    /\ legacySongChanges[j].pc = "fetchAudioData"
    /\ legacyTimers < MaxTimers
    /\ \E ok \in BOOLEAN, bpmMethod \in BPMMethods :
           LET g == IF ok THEN Some(legacySongChanges[j].fetchFor) ELSE None
           IN  /\ legacyGlobalAudioData' = g
               /\ IF legacyElement # "video"
                  THEN /\ legacySongChanges' = Remove(legacySongChanges, j)
                       /\ UNCHANGED <<legacyPaused, legacyPlaybackRate, legacyTimers>>
                  ELSE IF AwaitsBetterBPM(AudioDataOf(g), bpmMethod)
                  THEN /\ legacySongChanges' =
                              [legacySongChanges EXCEPT
                                 ![j] = [@ EXCEPT !.pc = "getPlaybackRate", !.rateFor = g]]
                       /\ UNCHANGED <<legacyPaused, legacyPlaybackRate, legacyTimers>>
                  ELSE LegacySongChangeEnds(
                           j, g, getPlaybackRate(AudioDataOf(g), bpmMethod, None))
    /\ UNCHANGED <<outsideLegacy, legacyIsPlaying, legacySong, legacyLastProgress,
                   legacyElement, legacyPauseHandled>>

\* part_000 415-428: the audio-features request of getBetterBPM settles
LegacyBetterBPMReturns(j) ==
    /\ legacySongChanges[j].pc = "getPlaybackRate"
    /\ legacyTimers < MaxTimers
    /\ \E features \in FeatureOutcomes :
           LegacySongChangeEnds(
               j, legacySongChanges[j].rateFor,
               getPlaybackRate(AudioDataOf(legacySongChanges[j].rateFor),
                               "Danceability, Energy and Track BPM", features))
    /\ UNCHANGED <<outsideLegacy, legacyIsPlaying, legacySong, legacyLastProgress,
                   legacyGlobalAudioData, legacyElement, legacyPauseHandled>>

NextLegacy ==
    \/ LegacyOnPlayPause
    \/ LegacyOnProgress
    \/ LegacyTimerFires
    \/ LegacySongChange
    \/ \E j \in DOMAIN legacySongChanges : LegacyFetchReturns(j)
    \/ \E j \in DOMAIN legacySongChanges : LegacyBetterBPMReturns(j)

SpecLegacy == InitLegacy /\ [][NextLegacy]_vars

\* ---------------------------------------------------------------------------
\* C27.  In the BPM-only driver, once the player has been paused and the
\* onplaypause handler has run, the video stays paused until the player
\* resumes: no beat-resync timer that syncTiming or the songchange handler
\* scheduled earlier restarts the video while the player is paused.
\* ---------------------------------------------------------------------------
C27_StaysPaused ==
    /\ [](legacyPauseHandled /\ legacyElement = "video" => legacyPaused)
    /\ [][(LegacyTimerFires /\ legacyPauseHandled /\ legacyElement = "video")
              => legacyPaused']_vars

====
